---- MODULE Spec2Model ----
(***************************************************************************)
(* A model of the AITable MCP server: the remote table service adapter     *)
(* (AITableService, src/src/aitableService.ts), the tool facade            *)
(* (AITableMCPServer, src/src/mcpServer.ts) and the legacy formula search  *)
(* (AirtableService, src/src/airtableService.ts).                          *)
(*                                                                         *)
(* Every adapter method is a chain of awaits on fetchFromAPI.  An action   *)
(* of the model is the code between two awaits: it consumes the reply to   *)
(* the request in flight and runs up to the next request (or the return).  *)
(* The upstream service is the environment: it answers the request in      *)
(* flight with any status, content type and body.                          *)
(***************************************************************************)
EXTENDS Naturals, Sequences, FiniteSets, TLC

\* ------------------------------------------------------------------ bounds
MaxTables == 2      \* tables the upstream space may hold
MaxPages == 2       \* pages the upstream splits a record list into
MaxCalls == 1       \* adapter calls made one after the other on one store
MaxNodes == 4       \* nodes of the upstream's node tree
MaxLen == 4         \* characters of a search term

VARIABLES
  store,     \* the upstream's data: [tables, pages]
  entry,     \* how the call came in: [kind, tool]
  op,        \* the adapter method running, with its arguments
  pc,        \* the await the adapter method is suspended at
  caller,    \* the adapter method awaiting the one running ("none": top level)
  lrOpts,    \* listRecords' options argument
  todo,      \* getBaseSchema fallback: datasheet nodes still to fetch
  acc,       \* getBaseSchema fallback: tables collected so far
  cur,       \* getBaseSchema fallback: fields response of the node in hand
  saved,     \* a value kept across an await (created id, first error)
  pending,   \* the request in flight, if any
  reply,     \* the upstream's reply, not yet consumed
  log,       \* the requests issued during the call, in order
  first,     \* the reply to the first request of the call
  faulty,    \* a secondary-dialect request of the call got a failing reply
  ret,       \* the outcome of the adapter method that last settled
  out,       \* the outcome of the tool callback
  last,      \* the previous call on this store: its method and outcome
  ncalls,    \* calls completed on this store
  tree,      \* the upstream's node tree of the space
  work,      \* getAllDatasheets: the processNode calls still to run, in order
  allDatasheets,  \* getAllDatasheets: the entries collected so far
  failedNodes,    \* the nodes whose fetch has failed (0: the top-level listing)
  searchTerm,     \* the term a formula search is given, as a list of characters
  formula,        \* the FIND literal built from it
  projection,     \* list_tables: the table, the detail level and what was returned
  instance,       \* the adapter instance: how its construction ended, and its key
  toolSchema,     \* get_base_schema: the callback's schema object
  suspended,      \* the locals of another call on the instance, waiting at an await
  answers         \* the upstream's answers so far, by request

vars == <<store, entry, op, pc, caller, lrOpts, todo, acc, cur, saved,
          pending, reply, log, first, faulty, ret, out, last, ncalls,
          tree, work, allDatasheets, failedNodes, searchTerm, formula,
          projection, instance, toolSchema, suspended, answers>>

walkVars == <<work, allDatasheets, failedNodes>>
escVars == <<searchTerm, formula>>
sideVars == <<projection, instance, toolSchema, suspended, answers>>

\* What an adapter step between two awaits never touches.
ctl == <<store, tree, entry, op, first, faulty, out, last, ncalls, walkVars, escVars, sideVars>>

\* ------------------------------------------------------- requests, replies
Req(kind, m, url, body) == [kind |-> kind, m |-> m, url |-> url, body |-> body]
NoReq == [kind |-> "none", m |-> "none", url |-> <<>>, body |-> <<>>]

\* What the upstream may answer: any status, any content type, any body.
Bodies == {"nojson", "badshape", "valid"}
Resps == [ok : BOOLEAN, html : BOOLEAN, body : Bodies]
NoReply == [ok |-> FALSE, html |-> FALSE, body |-> "none", data |-> <<>>]
NoFirst == [ok |-> FALSE, html |-> FALSE, body |-> "none"]

\* A fetch that rejects every reply.
fetchRejectsAll(r) == "HttpError"

\* fetchFromAPI's classification of a response, in the order of its checks.
fetchFromAPI(r) ==
  IF r.html THEN "HtmlError"
  ELSE IF r.body = "nojson" THEN "ParseError"
  ELSE IF ~r.ok THEN "HttpError"
  ELSE IF r.body = "badshape" THEN "ValidationError"
  ELSE "OK"

\* The message of the error fetchFromAPI throws, as a list of its parts.
ErrorOf(r) == <<fetchFromAPI(r)>>

IsPrimaryUrl(url) == Len(url) > 0 /\ url[1] = "v0"

\* ---------------------------------------------------------------- upstream
Base1 == [id |-> "b1", name |-> "Base", permissionLevel |-> "create"]
Space1 == [id |-> "b1", name |-> "Base", isAdmin |-> TRUE]
Space2 == [id |-> "b2", name |-> "Other", isAdmin |-> FALSE]

TblId(i) == "t" \o ToString(i)
FldId(i, j) == "f" \o ToString(i) \o ToString(j)
RecId(i) == "r" \o ToString(i)

\* A stored record and the page k of a table's records.
StoredRec(i) == [recordId |-> RecId(i), fields |-> "x"]
Page(k) == <<StoredRec(2 * k - 1), StoredRec(2 * k)>>
OffsetOf(k) == "off" \o ToString(k)

\* A field as the upstream stores it (the secondary dialect's shape).
StoredField(i, j, f) ==
  [id |-> FldId(i, j), name |-> f.name, type |-> f.type,
   desc |-> f.desc, property |-> f.property, isPrimary |-> (j = 1)]

StoredTable(i, name, fs) ==
  [id |-> TblId(i), name |-> name,
   fields |-> [j \in 1..Len(fs) |-> StoredField(i, j, fs[j])],
   views |-> <<[id |-> "v" \o ToString(i), name |-> "Grid", type |-> "Grid"]>>]

InitTable == StoredTable(1, "Tasks",
   <<[name |-> "Title", type |-> "singleLineText", desc |-> "", property |-> "{}"]>>)

FindIdx(seq, id) ==
  IF \E i \in 1..Len(seq) : seq[i].id = id
  THEN CHOOSE i \in 1..Len(seq) :
         seq[i].id = id /\ \A j \in 1..(i - 1) : seq[j].id # id
  ELSE 0

\* The page a continuation token stands for ("none": the first page).
PageNo(offset) ==
  IF offset = "none" THEN 1
  ELSE CHOOSE k \in 2..(MaxPages + 1) : OffsetOf(k) = offset

\* The records the upstream returns for a filter formula: none, one or two.
Matches == {<<>>, <<StoredRec(1)>>, <<StoredRec(1), StoredRec(3)>>}

\* A table in the primary dialect's shape (BaseSchemaResponseSchema).
PrimaryTable(t) ==
  [id |-> t.id, name |-> t.name, description |-> "",
   primaryFieldId |-> (IF \E j \in 1..Len(t.fields) : t.fields[j].isPrimary
                       THEN t.fields[CHOOSE j \in 1..Len(t.fields) : t.fields[j].isPrimary].id
                       ELSE ""),
   fields |-> [j \in 1..Len(t.fields) |->
                 [id |-> t.fields[j].id, name |-> t.fields[j].name,
                  type |-> t.fields[j].type, description |-> t.fields[j].desc,
                  options |-> t.fields[j].property]],
   views |-> t.views]

AsPrimaryRec(r) == [id |-> r.recordId, fields |-> r.fields]

\* The node tree: node i has a parent folder before it in the list (0: the
\* node is at the top level of the space).
NodeTypes == {"Datasheet", "Folder"}
StoredNode(i, type, parent) ==
  [id |-> "n" \o ToString(i),
   name |-> (IF type = "Folder" THEN "F" ELSE "D") \o ToString(i),
   type |-> type, parent |-> parent]

Trees ==
  UNION { { [i \in 1..n |-> StoredNode(i, pt[2][i], pt[1][i])] :
              pt \in { x \in [1..n -> 0..n] \X [1..n -> NodeTypes] :
                         \A i \in 1..n :
                           /\ x[1][i] < i
                           /\ x[1][i] # 0 => x[2][x[1][i]] = "Folder" } } :
          n \in 0..MaxNodes }

\* The nodes listed under parent p, as a listing shows them.
NodesUnder(p) ==
  LET sub == SelectSeq(tree, LAMBDA n : n.parent = p) IN
  [k \in 1..Len(sub) |-> [id |-> sub[k].id, name |-> sub[k].name, type |-> sub[k].type]]

\* What the upstream may report of a requested batch: any part of it, in the
\* order asked or in the reverse order.
RECURSIVE Reverse(_)
Reverse(sq) == IF sq = <<>> THEN <<>> ELSE Append(Reverse(Tail(sq)), Head(sq))

RECURSIVE Parts(_)
Parts(sq) ==
  IF sq = <<>> THEN {<<>>}
  ELSE Parts(Tail(sq)) \cup {<<Head(sq)>> \o t : t \in Parts(Tail(sq))}

Reported(sq) == Parts(sq) \cup {Reverse(t) : t \in Parts(sq)}

\* The parsed body of a 2xx, well-formed reply to request q: what the store holds.
Payloads(q) ==
  LET ts == store.tables
      ti == IF Len(q.url) >= 2 THEN FindIdx(ts, q.url[2]) ELSE 0
      pi == IF Len(q.url) >= 3 THEN FindIdx(ts, q.url[3]) ELSE 0
  IN
  CASE q.kind = "bases.primary" -> {[bases |-> <<Base1>>]}
    [] q.kind = "bases.secondary" -> {[data |-> [spaces |-> <<Space1, Space2>>]]}
    [] q.kind = "tables.primary" ->
         {[tables |-> [i \in 1..Len(ts) |-> PrimaryTable(ts[i])]]}
    [] q.kind = "nodes" ->
         {[data |-> [nodes |-> [i \in 1..Len(ts) |->
             [id |-> ts[i].id, name |-> ts[i].name, type |-> "Datasheet"]]]]}
    [] q.kind = "fields" ->
         {[data |-> [fields |-> IF ti > 0 THEN ts[ti].fields ELSE <<>>]]}
    [] q.kind = "views" ->
         {[data |-> [views |-> IF ti > 0 THEN ts[ti].views ELSE <<>>]]}
    [] q.kind = "records.primary" ->
         IF q.body.filter # ""
         THEN {[records |-> [i \in 1..Len(m) |-> AsPrimaryRec(m[i])],
                offset |-> "none"] : m \in Matches}
         ELSE LET k == PageNo(q.body.offset) IN
              {[records |-> [i \in 1..Len(Page(k)) |-> AsPrimaryRec(Page(k)[i])],
                offset |-> IF k < store.pages THEN OffsetOf(k + 1) ELSE "none"]}
    [] q.kind = "records.secondary" ->
         IF q.body.filter # ""
         THEN {[data |-> [records |-> m]] : m \in Matches}
         ELSE {[data |-> [records |-> Page(1)]]}
    [] q.kind = "record.primary" -> {AsPrimaryRec(StoredRec(1))}
    [] q.kind = "createTable" ->
         {[data |-> [datasheetId |-> TblId(Len(ts) + 1)]]}
    [] q.kind = "updateTable" -> {[data |-> [updated |-> TRUE]]}
    [] q.kind = "createField.primary" ->
         {[id |-> FldId(pi, 9), name |-> q.body.name, type |-> q.body.type]}
    [] q.kind = "createField.secondary" ->
         {[data |-> [field |-> [id |-> FldId(ti, 9), name |-> q.body.name,
                                type |-> q.body.type, desc |-> "", property |-> "{}"]]]}
    [] q.kind = "updateField.primary" ->
         {[id |-> q.url[Len(q.url)], name |-> q.body.name, type |-> "singleLineText"]}
    [] q.kind = "updateField.secondary" ->
         {[data |-> [field |-> [id |-> q.url[Len(q.url)], name |-> q.body.name,
                                type |-> "singleLineText", desc |-> "", property |-> "{}"]]]}
    [] q.kind = "space.nodes" ->
         {[success |-> sc, data |-> [nodes |-> NodesUnder(0)]] : sc \in BOOLEAN}
    [] q.kind = "node.detail" ->
         LET i == FindIdx(tree, q.url[4]) IN
         {[success |-> sc,
           data |-> [id |-> tree[i].id, name |-> tree[i].name, type |-> tree[i].type,
                     children |-> NodesUnder(i)]] : sc \in BOOLEAN}
    [] q.kind = "createRecord" ->
         {[data |-> [records |-> rs]] :
            rs \in {<<>>, <<[recordId |-> RecId(9), fields |-> q.body.records[1].fields]>>}}
    [] q.kind = "updateRecords" ->
         {[data |-> [records |-> rs]] : rs \in Reported(q.body.records)}
    [] q.kind = "deleteRecords" ->
         {[data |-> [results |-> [k \in 1..Len(ids) |->
                                   [recordId |-> ids[k], deleted |-> ids[k] \in del]]]] :
            ids \in Reported(q.body.recordIds),
            del \in SUBSET {q.body.recordIds[k] : k \in 1..Len(q.body.recordIds)}}
    [] q.kind = "search.primary" ->
         {[records |-> [i \in 1..Len(m) |-> AsPrimaryRec(m[i])]] : m \in Matches}
    [] q.kind = "search.secondary" ->
         {[data |-> [records |-> [i \in 1..Len(m) |->
             [recordId |-> m[i].recordId, data |-> m[i].fields]]]] : m \in Matches}

\* What a 2xx answer to a mutating request leaves in the store.
Apply(q) ==
  LET ts == store.tables IN
  CASE q.kind = "createTable" ->
         [store EXCEPT !.tables =
            Append(ts, StoredTable(Len(ts) + 1, q.body.name, q.body.fields))]
    [] q.kind = "updateTable" /\ FindIdx(ts, q.url[2]) > 0 ->
         [store EXCEPT !.tables[FindIdx(ts, q.url[2])].name = q.body.name]
    [] OTHER -> store

\* The upstream answers the request in flight.
Respond ==
  /\ pending.m # "none"
  /\ \E r \in Resps :
       \E d \in (IF fetchFromAPI(r) = "OK" THEN Payloads(pending) ELSE {<<>>}) :
         /\ reply' = [ok |-> r.ok, html |-> r.html, body |-> r.body, data |-> d]
         /\ first' = IF Len(log) = 1 THEN r ELSE first
         /\ faulty' = (faulty \/ (~IsPrimaryUrl(pending.url) /\ fetchFromAPI(r) # "OK"))
         /\ store' = IF r.ok /\ ~r.html THEN Apply(pending) ELSE store
  /\ pending' = NoReq
  /\ UNCHANGED <<entry, op, pc, caller, lrOpts, todo, acc, cur, saved, log,
                 ret, out, last, ncalls, tree, walkVars, escVars, sideVars>>

\* ----------------------------------------------------------------- adapter
NoOp == [name |-> "none", baseId |-> "", tableId |-> "", recordId |-> "",
         fieldId |-> "", maxRecords |-> 0, filter |-> "", term |-> "",
         fieldIds |-> <<>>, tname |-> "", tfields |-> <<>>,
         fields |-> "", records |-> <<>>, recordIds |-> <<>>]
NoRet == [st |-> "none", val |-> <<>>, err |-> <<>>]
NoOpts == [maxRecords |-> 0, filter |-> ""]

Send(q) == pending' = q /\ log' = Append(log, q) /\ reply' = NoReply

\* The running method settles: its promise resolves (st = "ok") or rejects.
Settle(st, val, err) ==
  /\ ret' = [st |-> st, val |-> val, err |-> err]
  /\ pc' = IF caller = "none" THEN "done" ELSE "resume"
  /\ pending' = NoReq /\ reply' = NoReply /\ log' = log

Got(label) == pc = label /\ reply.body # "none"
ReplyOK == fetchFromAPI(reply) = "OK"

\* URLSearchParams of listRecords: a parameter is appended when it is truthy.
Query(maxName, o) ==
  (IF o.maxRecords # 0 THEN <<maxName \o "=" \o ToString(o.maxRecords)>> ELSE <<>>)
  \o (IF o.filter # "" THEN <<"filterByFormula=" \o o.filter>> ELSE <<>>)

\* The first request of each method: the code up to its first await.
listBases_req == Req("bases.primary", "GET", <<"v0", "meta", "bases">>, <<>>)
getBaseSchema_req(b) ==
  Req("tables.primary", "GET", <<"v0", "meta", "bases", b, "tables">>, <<>>)
listRecords_req(b, t, o) ==
  Req("records.primary", "GET", <<"v0", b, t, "records">> \o Query("maxRecords", o),
      [filter |-> o.filter, offset |-> "none"])
getRecord_req(o) ==
  Req("record.primary", "GET", <<"v0", o.baseId, o.tableId, o.recordId>>, <<>>)

\* ---- listBases (aitableService.ts 107-142)
listBases_primary ==
  /\ Got("listBases_1")
  /\ IF ReplyOK
     THEN Settle("ok", reply.data, <<>>)
     ELSE /\ Send(Req("bases.secondary", "GET", <<"spaces">>, <<>>))
          /\ pc' = "listBases_2" /\ ret' = ret
  /\ UNCHANGED <<ctl, caller, lrOpts, todo, acc, cur, saved>>

\* A mapping that gives every space the same permission level.
SpaceToBase_flat(space) ==
  [id |-> space.id, name |-> space.name, permissionLevel |-> "read"]

SpaceToBase(space) ==
  [id |-> space.id, name |-> space.name,
   permissionLevel |-> IF space.isAdmin THEN "owner" ELSE "read"]

\* A fallback that sends its request again when it has failed.
listBases_fallback_retry ==
  /\ Got("listBases_2")
  /\ IF ReplyOK
     THEN LET sp == reply.data.data.spaces IN
          Settle("ok", [bases |-> [i \in 1..Len(sp) |-> SpaceToBase(sp[i])]], <<>>)
     ELSE /\ Send(Req("bases.secondary", "GET", <<"spaces">>, <<>>))
          /\ pc' = "listBases_2" /\ ret' = ret
  /\ UNCHANGED <<ctl, caller, lrOpts, todo, acc, cur, saved>>

listBases_fallback ==
  /\ Got("listBases_2")
  /\ IF ReplyOK
     THEN LET sp == reply.data.data.spaces IN
          Settle("ok", [bases |-> [i \in 1..Len(sp) |-> SpaceToBase(sp[i])]], <<>>)
     ELSE Settle("err", <<>>, ErrorOf(reply))
  /\ UNCHANGED <<ctl, caller, lrOpts, todo, acc, cur, saved>>

\* ---- listRecords (aitableService.ts 255-322)
listRecords_primary ==
  /\ Got("listRecords_1")
  /\ IF ReplyOK
     THEN Settle("ok", reply.data.records, <<>>)
     ELSE /\ Send(Req("records.secondary", "GET",
                      <<"datasheets", op.tableId, "records">> \o Query("pageSize", lrOpts),
                      [filter |-> lrOpts.filter, offset |-> "none"]))
          /\ pc' = "listRecords_2" /\ ret' = ret
  /\ UNCHANGED <<ctl, caller, lrOpts, todo, acc, cur, saved>>

FromSecondaryRec(r) == [id |-> r.recordId, fields |-> r.fields]

listRecords_fallback ==
  /\ Got("listRecords_2")
  /\ IF ReplyOK
     THEN LET rs == reply.data.data.records IN
          Settle("ok", [i \in 1..Len(rs) |-> FromSecondaryRec(rs[i])], <<>>)
     ELSE Settle("err", <<>>, ErrorOf(reply))
  /\ UNCHANGED <<ctl, caller, lrOpts, todo, acc, cur, saved>>

\* ---- getRecord (aitableService.ts 327-368)
RecordIDFilter(recordId) == "{RecordID}='" \o recordId \o "'"

getRecord_primary ==
  /\ Got("getRecord_1")
  /\ IF ReplyOK
     THEN /\ Settle("ok", [id |-> reply.data.id, fields |-> reply.data.fields], <<>>)
          /\ UNCHANGED <<caller, lrOpts, saved>>
     ELSE LET o == [maxRecords |-> 2, filter |-> RecordIDFilter(op.recordId)] IN
          /\ saved' = ErrorOf(reply)
          /\ caller' = "getRecord" /\ lrOpts' = o
          /\ Send(listRecords_req(op.baseId, op.tableId, o))
          /\ pc' = "listRecords_1" /\ ret' = ret
  /\ UNCHANGED <<ctl, todo, acc, cur>>

\* The message of the error thrown when the filter matches no record.
RecordNotFound(recordId) == <<"Record", recordId, "not found using RecordID filter">>

\* A fallback that rejects when the filter matches more than one record.
getRecord_fallback_unique ==
  /\ pc = "resume" /\ caller = "getRecord"
  /\ caller' = "none" /\ pc' = "done"
  /\ ret' = IF ret.st = "ok" /\ Len(ret.val) = 1
            THEN [st |-> "ok", val |-> ret.val[1], err |-> <<>>]
            ELSE [st |-> "err", val |-> <<>>,
                  err |-> <<"Failed to get record", op.recordId, "Original error">> \o saved
                          \o <<"Fallback error">>
                          \o (IF ret.st = "ok" THEN RecordNotFound(op.recordId)
                              ELSE ret.err)]
  /\ UNCHANGED <<ctl, lrOpts, todo, acc, cur, saved, pending, reply, log>>

\* listRecords has settled; the rest of getRecord's fallback runs.
getRecord_fallback ==
  /\ pc = "resume" /\ caller = "getRecord"
  /\ caller' = "none" /\ pc' = "done"
  /\ ret' = IF ret.st = "ok" /\ Len(ret.val) >= 1
            THEN [st |-> "ok", val |-> ret.val[1], err |-> <<>>]
            ELSE [st |-> "err", val |-> <<>>,
                  err |-> <<"Failed to get record", op.recordId, "Original error">> \o saved
                          \o <<"Fallback error">>
                          \o (IF ret.st = "ok" THEN RecordNotFound(op.recordId)
                              ELSE ret.err)]
  /\ UNCHANGED <<ctl, lrOpts, todo, acc, cur, saved, pending, reply, log>>

\* ---- getBaseSchema (aitableService.ts 147-250)
getBaseSchema_primary ==
  /\ Got("getBaseSchema_1")
  /\ IF ReplyOK
     THEN Settle("ok", reply.data, <<>>)
     ELSE /\ Send(Req("nodes", "GET",
                      <<"spaces", op.baseId, "nodes", "?type=Datasheet">>, <<>>))
          /\ pc' = "getBaseSchema_nodes" /\ ret' = ret
  /\ UNCHANGED <<ctl, caller, lrOpts, todo, acc, cur, saved>>

\* A loop that stops after the first table it has collected.
getBaseSchema_loop_once(nodes, tables) ==
  /\ todo' = nodes /\ acc' = tables
  /\ IF nodes = <<>> \/ tables # <<>>
     THEN Settle("ok", [tables |-> tables, bases |-> <<>>], <<>>)
     ELSE /\ Send(Req("fields", "GET", <<"datasheets", nodes[1].id, "fields">>, <<>>))
          /\ pc' = "getBaseSchema_fields" /\ ret' = ret

\* The head of the for loop over datasheetNodes: the next node's fields
\* request, or the return when no node is left.
getBaseSchema_loop(nodes, tables) ==
  /\ todo' = nodes /\ acc' = tables
  /\ IF nodes = <<>>
     THEN Settle("ok", [tables |-> tables, bases |-> <<>>], <<>>)
     ELSE /\ Send(Req("fields", "GET", <<"datasheets", nodes[1].id, "fields">>, <<>>))
          /\ pc' = "getBaseSchema_fields" /\ ret' = ret

getBaseSchema_nodes ==
  /\ Got("getBaseSchema_nodes")
  /\ IF ReplyOK
     THEN getBaseSchema_loop(
            SelectSeq(reply.data.data.nodes, LAMBDA n : n.type = "Datasheet"), <<>>)
     ELSE Settle("err", <<>>, ErrorOf(reply)) /\ UNCHANGED <<todo, acc>>
  /\ UNCHANGED <<ctl, caller, lrOpts, cur, saved>>

\* A fields fetch whose failure fails the whole operation.
getBaseSchema_fields_abort ==
  /\ Got("getBaseSchema_fields")
  /\ IF ReplyOK
     THEN /\ cur' = reply.data.data.fields
          /\ Send(Req("views", "GET", <<"datasheets", todo[1].id, "views">>, <<>>))
          /\ pc' = "getBaseSchema_views" /\ UNCHANGED <<ret, todo, acc>>
     ELSE Settle("err", <<>>, ErrorOf(reply)) /\ UNCHANGED <<todo, acc, cur>>
  /\ UNCHANGED <<ctl, caller, lrOpts, saved>>

getBaseSchema_fields ==
  /\ Got("getBaseSchema_fields")
  /\ IF ReplyOK
     THEN /\ cur' = reply.data.data.fields
          /\ Send(Req("views", "GET", <<"datasheets", todo[1].id, "views">>, <<>>))
          /\ pc' = "getBaseSchema_views" /\ UNCHANGED <<ret, todo, acc>>
     ELSE getBaseSchema_loop(Tail(todo), acc) /\ cur' = cur
  /\ UNCHANGED <<ctl, caller, lrOpts, saved>>

\* The primary field: the one flagged isPrimary, else the first, else ''.
PrimaryFieldId(fields) ==
  IF \E j \in 1..Len(fields) : fields[j].isPrimary
  THEN fields[CHOOSE j \in 1..Len(fields) :
                fields[j].isPrimary /\ \A k \in 1..(j - 1) : ~fields[k].isPrimary].id
  ELSE IF Len(fields) > 0 THEN fields[1].id ELSE ""

FieldFromSecondary(f) ==
  [id |-> f.id, name |-> f.name, type |-> f.type, description |-> f.desc,
   options |-> f.property]

TableFromSecondary(node, fields, views) ==
  [id |-> node.id, name |-> node.name, primaryFieldId |-> PrimaryFieldId(fields),
   fields |-> [j \in 1..Len(fields) |-> FieldFromSecondary(fields[j])],
   views |-> views, description |-> ""]

getBaseSchema_views ==
  /\ Got("getBaseSchema_views")
  /\ IF ReplyOK
     THEN getBaseSchema_loop(Tail(todo),
            Append(acc, TableFromSecondary(todo[1], cur, reply.data.data.views)))
     ELSE getBaseSchema_loop(Tail(todo), acc)
  /\ UNCHANGED <<ctl, caller, lrOpts, cur, saved>>

\* ---- createTable (aitableService.ts 478-516)
\* A field transformation that loses the submitted type.
ToAITableField_untyped(f) ==
  [name |-> f.name, type |-> "Text",
   desc |-> IF f.description = "none" THEN "" ELSE f.description,
   property |-> IF f.options = "none" THEN "{}" ELSE f.options]

ToAITableField(f) ==
  [name |-> f.name, type |-> f.type,
   desc |-> IF f.description = "none" THEN "" ELSE f.description,
   property |-> IF f.options = "none" THEN "{}" ELSE f.options]

createTable_req(o) ==
  Req("createTable", "POST", <<"spaces", o.baseId, "datasheets">>,
      [name |-> o.tname, description |-> "",
       fields |-> [j \in 1..Len(o.tfields) |-> ToAITableField(o.tfields[j])]])

createTable_posted ==
  /\ Got("createTable_1")
  /\ IF ReplyOK
     THEN /\ saved' = reply.data.data.datasheetId
          /\ caller' = "createTable"
          /\ Send(getBaseSchema_req(op.baseId))
          /\ pc' = "getBaseSchema_1" /\ ret' = ret
     ELSE Settle("err", <<>>, ErrorOf(reply)) /\ UNCHANGED <<saved, caller>>
  /\ UNCHANGED <<ctl, lrOpts, todo, acc, cur>>

\* find() that takes the first table whatever its id.
FindTable_first(schema, id, missing) ==
  IF Len(schema.tables) > 0
  THEN [st |-> "ok", val |-> schema.tables[1], err |-> <<>>]
  ELSE [st |-> "err", val |-> <<>>, err |-> <<missing>>]

\* tableSchema.tables.find(table => table.id === id), or the error thrown.
FindTable(schema, id, missing) ==
  IF FindIdx(schema.tables, id) > 0
  THEN [st |-> "ok", val |-> schema.tables[FindIdx(schema.tables, id)], err |-> <<>>]
  ELSE [st |-> "err", val |-> <<>>, err |-> <<missing>>]

createTable_refetched ==
  /\ pc = "resume" /\ caller = "createTable"
  /\ caller' = "none" /\ pc' = "done"
  /\ ret' = IF ret.st = "ok"
            THEN FindTable(ret.val, saved, "Created datasheet not found in schema")
            ELSE ret
  /\ UNCHANGED <<ctl, lrOpts, todo, acc, cur, saved, pending, reply, log>>

\* ---- updateTable (aitableService.ts 521-554)
updateTable_req(o) ==
  Req("updateTable", "PATCH", <<"datasheets", o.tableId>>,
      [name |-> o.tname, desc |-> ""])

updateTable_patched ==
  /\ Got("updateTable_1")
  /\ IF ReplyOK
     THEN /\ caller' = "updateTable"
          /\ Send(getBaseSchema_req(op.baseId))
          /\ pc' = "getBaseSchema_1" /\ ret' = ret
     ELSE Settle("err", <<>>, ErrorOf(reply)) /\ caller' = caller
  /\ UNCHANGED <<ctl, lrOpts, todo, acc, cur, saved>>

updateTable_refetched ==
  /\ pc = "resume" /\ caller = "updateTable"
  /\ caller' = "none" /\ pc' = "done"
  /\ ret' = IF ret.st = "ok"
            THEN FindTable(ret.val, op.tableId, "Updated datasheet not found in schema")
            ELSE ret
  /\ UNCHANGED <<ctl, lrOpts, todo, acc, cur, saved, pending, reply, log>>

\* ---- createField (aitableService.ts 556-611)
createField_req(o) ==
  Req("createField.primary", "POST",
      <<"v0", "meta", "bases", o.baseId, "tables", o.tableId, "fields">>,
      [name |-> o.tname, type |-> "Text"])

FieldFromMutation(f) ==
  [id |-> f.id, name |-> f.name, type |-> f.type, description |-> f.desc,
   options |-> f.property]

createField_primary ==
  /\ Got("createField_1")
  /\ IF ReplyOK
     THEN Settle("ok", reply.data, <<>>)
     ELSE /\ Send(Req("createField.secondary", "POST",
                      <<"datasheets", op.tableId, "fields">>,
                      [name |-> op.tname, type |-> "Text"]))
          /\ pc' = "createField_2" /\ ret' = ret
  /\ UNCHANGED <<ctl, caller, lrOpts, todo, acc, cur, saved>>

createField_fallback ==
  /\ Got("createField_2")
  /\ IF ReplyOK
     THEN Settle("ok", FieldFromMutation(reply.data.data.field), <<>>)
     ELSE Settle("err", <<>>, ErrorOf(reply))
  /\ UNCHANGED <<ctl, caller, lrOpts, todo, acc, cur, saved>>

\* ---- updateField (aitableService.ts 613-671)
updateField_req(o) ==
  Req("updateField.primary", "PATCH",
      <<"v0", "meta", "bases", o.baseId, "tables", o.tableId, "fields", o.fieldId>>,
      [name |-> o.tname])

updateField_primary ==
  /\ Got("updateField_1")
  /\ IF ReplyOK
     THEN Settle("ok", reply.data, <<>>)
     ELSE /\ Send(Req("updateField.secondary", "PATCH",
                      <<"datasheets", op.tableId, "fields", op.fieldId>>,
                      [name |-> op.tname]))
          /\ pc' = "updateField_2" /\ ret' = ret
  /\ UNCHANGED <<ctl, caller, lrOpts, todo, acc, cur, saved>>

updateField_fallback ==
  /\ Got("updateField_2")
  /\ IF ReplyOK
     THEN Settle("ok", FieldFromMutation(reply.data.data.field), <<>>)
     ELSE Settle("err", <<>>, ErrorOf(reply))
  /\ UNCHANGED <<ctl, caller, lrOpts, todo, acc, cur, saved>>

\* ---- searchRecords (aitableService.ts 673-744)
JoinIds(ids) == IF ids = <<>> THEN <<>> ELSE <<"fields=">> \o ids

searchRecords_req(o) ==
  Req("search.primary", "GET",
      <<"v0", o.baseId, o.tableId, "search", "search=" \o o.term>>
        \o (IF o.maxRecords # 0 THEN <<"maxRecords=" \o ToString(o.maxRecords)>> ELSE <<>>)
        \o JoinIds(o.fieldIds),
      <<>>)

searchRecords_primary ==
  /\ Got("searchRecords_1")
  /\ IF ReplyOK
     THEN Settle("ok", reply.data.records, <<>>)
     ELSE /\ Send(Req("search.secondary", "GET",
                      <<"datasheets", op.tableId, "search", "keyword=" \o op.term>>
                        \o (IF op.maxRecords # 0
                            THEN <<"pageSize=" \o ToString(op.maxRecords)>> ELSE <<>>),
                      <<>>))
          /\ pc' = "searchRecords_2" /\ ret' = ret
  /\ UNCHANGED <<ctl, caller, lrOpts, todo, acc, cur, saved>>

FromSearchRec(r) == [id |-> r.recordId, fields |-> r.data]

searchRecords_fallback ==
  /\ Got("searchRecords_2")
  /\ IF ReplyOK
     THEN LET rs == reply.data.data.records IN
          Settle("ok", [i \in 1..Len(rs) |-> FromSearchRec(rs[i])], <<>>)
     ELSE Settle("err", <<>>, ErrorOf(reply))
  /\ UNCHANGED <<ctl, caller, lrOpts, todo, acc, cur, saved>>

\* ---- createRecord, updateRecords, deleteRecords (aitableService.ts 373-473)
createRecord_req(o) ==
  Req("createRecord", "POST", <<"datasheets", o.tableId, "records">>,
      [records |-> <<[fields |-> o.fields]>>])

createRecord_posted ==
  /\ Got("createRecord_1")
  /\ IF ReplyOK
     THEN LET rs == reply.data.data.records IN
          IF Len(rs) = 0
          THEN Settle("err", <<>>, <<"Failed to create record, no record returned">>)
          ELSE Settle("ok", [id |-> rs[1].recordId, fields |-> rs[1].fields], <<>>)
     ELSE Settle("err", <<>>, ErrorOf(reply))
  /\ UNCHANGED <<ctl, caller, lrOpts, todo, acc, cur, saved>>

updateRecords_req(o) ==
  Req("updateRecords", "PATCH", <<"datasheets", o.tableId, "records">>,
      [records |-> [k \in 1..Len(o.records) |->
                      [recordId |-> o.records[k].id, fields |-> o.records[k].fields]]])

updateRecords_patched ==
  /\ Got("updateRecords_1")
  /\ IF ReplyOK
     THEN LET rs == reply.data.data.records IN
          Settle("ok", [k \in 1..Len(rs) |-> FromSecondaryRec(rs[k])], <<>>)
     ELSE Settle("err", <<>>, ErrorOf(reply))
  /\ UNCHANGED <<ctl, caller, lrOpts, todo, acc, cur, saved>>

deleteRecords_req(o) ==
  Req("deleteRecords", "DELETE", <<"datasheets", o.tableId, "records">>,
      [recordIds |-> o.recordIds])

\* A deleteRecords that takes the whole requested batch as deleted.
deleteRecords_assumed ==
  /\ Got("deleteRecords_1")
  /\ IF ReplyOK
     THEN Settle("ok", [k \in 1..Len(op.recordIds) |-> [id |-> op.recordIds[k]]], <<>>)
     ELSE Settle("err", <<>>, ErrorOf(reply))
  /\ UNCHANGED <<ctl, caller, lrOpts, todo, acc, cur, saved>>

deleteRecords_deleted ==
  /\ Got("deleteRecords_1")
  /\ IF ReplyOK
     THEN LET del == SelectSeq(reply.data.data.results, LAMBDA r : r.deleted) IN
          Settle("ok", [k \in 1..Len(del) |-> [id |-> del[k].recordId]], <<>>)
     ELSE Settle("err", <<>>, ErrorOf(reply))
  /\ UNCHANGED <<ctl, caller, lrOpts, todo, acc, cur, saved>>

\* ---- getAllDatasheets, processNode (aitableService.ts 751-799, 836-890)
getAllDatasheets_req(spaceId) ==
  Req("space.nodes", "GET", <<"spaces", spaceId, "nodes">>, <<>>)
processNode_req(spaceId, nodeId) ==
  Req("node.detail", "GET", <<"spaces", spaceId, "nodes", nodeId>>, <<>>)

DatasheetInfo(id, name, path, spaceId) ==
  [id |-> id, name |-> name, path |-> path, spaceId |-> spaceId]

\* A path that always writes the separator.
currentPath_separated(nodePath, name) == nodePath \o " > " \o name

currentPath(nodePath, name) ==
  IF nodePath # "" THEN nodePath \o " > " \o name ELSE name

\* The next processNode call of the loops in progress, or the return of
\* getAllDatasheets when none is left.
processNode_next(w, ds) ==
  /\ work' = w /\ allDatasheets' = ds
  /\ IF w = <<>>
     THEN Settle("ok", ds, <<>>)
     ELSE /\ Send(processNode_req(op.baseId, w[1].id))
          /\ pc' = "processNode" /\ ret' = ret

getAllDatasheets_listed ==
  /\ Got("getAllDatasheets_1")
  /\ IF ReplyOK /\ reply.data.success
     THEN LET nodes == reply.data.data.nodes
              rootDatasheets == SelectSeq(nodes, LAMBDA n : n.type = "Datasheet")
              folders == SelectSeq(nodes, LAMBDA n : n.type = "Folder")
          IN /\ processNode_next(
                  [k \in 1..Len(folders) |-> [id |-> folders[k].id, nodePath |-> ""]],
                  [k \in 1..Len(rootDatasheets) |->
                     DatasheetInfo(rootDatasheets[k].id, rootDatasheets[k].name,
                                   rootDatasheets[k].name, op.baseId)])
             /\ failedNodes' = failedNodes
     ELSE /\ Settle("ok", <<>>, <<>>)
          /\ failedNodes' = failedNodes \cup {0}
          /\ UNCHANGED <<work, allDatasheets>>
  /\ UNCHANGED <<store, tree, entry, op, first, faulty, out, last, ncalls, escVars, sideVars,
                 caller, lrOpts, todo, acc, cur, saved>>

\* The error is thrown on to getAllDatasheets, whose catch returns [].
processNode_rethrow ==
  /\ Settle("ok", <<>>, <<>>)
  /\ work' = <<>> /\ allDatasheets' = <<>>

\* processNode's catch: the error is logged and the call returns.
processNode_catch == processNode_next(Tail(work), allDatasheets)

\* A walk that visits a folder's children after the folder's siblings.
processNode_fetched_breadth ==
  /\ Got("processNode")
  /\ IF ReplyOK /\ reply.data.success
     THEN LET node == reply.data.data
              path == currentPath(work[1].nodePath, node.name)
          IN /\ failedNodes' = failedNodes
             /\ IF node.type = "Datasheet"
                THEN processNode_next(Tail(work),
                       Append(allDatasheets,
                              DatasheetInfo(node.id, node.name, path, op.baseId)))
                ELSE IF node.type = "Folder" /\ Len(node.children) > 0
                THEN processNode_next(
                       Tail(work) \o
                         [k \in 1..Len(node.children) |->
                            [id |-> node.children[k].id, nodePath |-> path]],
                       allDatasheets)
                ELSE processNode_next(Tail(work), allDatasheets)
     ELSE /\ failedNodes' = failedNodes \cup {FindIdx(tree, work[1].id)}
          /\ processNode_catch
  /\ UNCHANGED <<store, tree, entry, op, first, faulty, out, last, ncalls, escVars, sideVars,
                 caller, lrOpts, todo, acc, cur, saved>>

processNode_fetched ==
  /\ Got("processNode")
  /\ IF ReplyOK /\ reply.data.success
     THEN LET node == reply.data.data
              path == currentPath(work[1].nodePath, node.name)
          IN /\ failedNodes' = failedNodes
             /\ IF node.type = "Datasheet"
                THEN processNode_next(Tail(work),
                       Append(allDatasheets,
                              DatasheetInfo(node.id, node.name, path, op.baseId)))
                ELSE IF node.type = "Folder" /\ Len(node.children) > 0
                THEN processNode_next(
                       [k \in 1..Len(node.children) |->
                          [id |-> node.children[k].id, nodePath |-> path]]
                         \o Tail(work),
                       allDatasheets)
                ELSE processNode_next(Tail(work), allDatasheets)
     ELSE /\ failedNodes' = failedNodes \cup {FindIdx(tree, work[1].id)}
          /\ processNode_catch
  /\ UNCHANGED <<store, tree, entry, op, first, faulty, out, last, ncalls, escVars, sideVars,
                 caller, lrOpts, todo, acc, cur, saved>>

\* ------------------------------------------------------------------ inputs
SubmitField(n, t, d, o) == [name |-> n, type |-> t, description |-> d, options |-> o]
FieldLists ==
  { <<>>,
    <<SubmitField("Name", "singleLineText", "none", "none")>>,
    <<SubmitField("Name", "singleLineText", "the name", "none"),
      SubmitField("Qty", "number", "none", "precision")>> }

OpInputs ==
  {[NoOp EXCEPT !.name = "listBases"]}
  \cup {[NoOp EXCEPT !.name = "getBaseSchema", !.baseId = "b1"]}
  \cup {[NoOp EXCEPT !.name = "listRecords", !.baseId = "b1", !.tableId = "t1",
                     !.maxRecords = m] : m \in {0, 100}}
  \cup {[NoOp EXCEPT !.name = "getRecord", !.baseId = "b1", !.tableId = "t1",
                     !.recordId = "r1"]}
  \cup {[NoOp EXCEPT !.name = "createField", !.baseId = "b1", !.tableId = "t1",
                     !.tname = "Notes"]}
  \cup {[NoOp EXCEPT !.name = "updateField", !.baseId = "b1", !.tableId = "t1",
                     !.fieldId = "f11", !.tname = "Renamed"]}
  \cup {[NoOp EXCEPT !.name = "searchRecords", !.baseId = "b1", !.tableId = "t1",
                     !.term = "foo", !.fieldIds = f] : f \in {<<>>, <<"f11">>, <<"f19">>}}
  \cup {[NoOp EXCEPT !.name = "createTable", !.baseId = "b1", !.tname = "New",
                     !.tfields = fs] : fs \in FieldLists}
  \cup {[NoOp EXCEPT !.name = "updateTable", !.baseId = "b1", !.tableId = t,
                     !.tname = "Renamed"] : t \in {"t1", "t9"}}

\* The code of method o.name up to its first await.
Invoke(o) ==
  /\ pc' = o.name \o "_1"
  /\ lrOpts' = [maxRecords |-> o.maxRecords, filter |-> o.filter]
  /\ Send(CASE o.name = "listBases" -> listBases_req
            [] o.name = "getBaseSchema" -> getBaseSchema_req(o.baseId)
            [] o.name = "listRecords" ->
                 listRecords_req(o.baseId, o.tableId,
                                 [maxRecords |-> o.maxRecords, filter |-> o.filter])
            [] o.name = "getRecord" -> getRecord_req(o)
            [] o.name = "createField" -> createField_req(o)
            [] o.name = "updateField" -> updateField_req(o)
            [] o.name = "searchRecords" -> searchRecords_req(o)
            [] o.name = "createTable" -> createTable_req(o)
            [] o.name = "updateTable" -> updateTable_req(o)
            [] o.name = "getAllDatasheets" -> getAllDatasheets_req(o.baseId)
            [] o.name = "createRecord" -> createRecord_req(o)
            [] o.name = "updateRecords" -> updateRecords_req(o)
            [] o.name = "deleteRecords" -> deleteRecords_req(o))

CanCall(o) ==
  /\ pc = "idle"
  /\ o.name = "createTable" => Len(store.tables) < MaxTables

Start(o, kind, tool) ==
  /\ CanCall(o)
  /\ op' = o /\ entry' = [kind |-> kind, tool |-> tool]
  /\ Invoke(o)
  /\ UNCHANGED <<store, caller, todo, acc, cur, saved, first, faulty, ret, out, last,
                 ncalls, tree, walkVars, escVars, sideVars>>

\* A caller invokes an adapter method directly.
Call ==
  /\ ncalls < MaxCalls
  /\ \E o \in OpInputs : Start(o, "direct", "none")

\* ------------------------------------------------------------------ facade
\* The tools setupTools registers whose adapter method is modelled here, with
\* the key each callback wraps the adapter's result in.
ToolOp ==
  [list_bases |-> "listBases", list_records |-> "listRecords",
   get_record |-> "getRecord", create_table |-> "createTable",
   update_table |-> "updateTable", create_field |-> "createField",
   create_record |-> "createRecord", update_records |-> "updateRecords",
   delete_records |-> "deleteRecords"]
ToolKey ==
  [list_bases |-> "bases", list_records |-> "records", get_record |-> "record",
   create_table |-> "table", update_table |-> "table", create_field |-> "field",
   create_record |-> "record", update_records |-> "records", delete_records |-> "result"]
ToolNames == DOMAIN ToolOp

NoOut == [st |-> "none", env |-> <<>>, err |-> <<>>]

\* executeToolDirectly(name, input): the registered callback runs up to the
\* await of its adapter call.
executeToolDirectly ==
  /\ ncalls < MaxCalls
  /\ \E t \in ToolNames : \E o \in OpInputs :
       o.name = ToolOp[t] /\ Start(o, "tool", t)

JSONstringify(v) == ToString(v)

\* The object a callback serialises: { <key>: <adapter result> }.
Wrapped(key, v) == [k \in {key} |-> v]

ToolEnvelope(t, v) ==
  [content |-> <<[type |-> "text", mimeType |-> "application/json",
                  text |-> JSONstringify(Wrapped(ToolKey[t], v))]>>]

\* The adapter call of a tool callback has settled: the callback returns its
\* envelope, or the rejection passes through executeToolByName and
\* executeToolDirectly, which log and rethrow.
toolCallback ==
  /\ pc = "done" /\ entry.kind = "tool" /\ out.st = "none"
  /\ out' = IF ret.st = "ok"
            THEN [st |-> "returned", env |-> ToolEnvelope(entry.tool, ret.val),
                  err |-> <<>>]
            ELSE [st |-> "threw", env |-> <<>>, err |-> ret.err]
  /\ UNCHANGED <<store, entry, op, pc, caller, lrOpts, todo, acc, cur, saved,
                 pending, reply, log, first, faulty, ret, last, ncalls,
                 tree, walkVars, escVars, sideVars>>

\* The call is over; the next one starts from the same store.
NoLast == [name |-> "none", st |-> "none", val |-> <<>>, tname |-> "", tfields |-> <<>>]

Finish ==
  /\ pc = "done"
  /\ entry.kind = "tool" => out.st # "none"
  /\ last' = [name |-> op.name, st |-> ret.st, val |-> ret.val,
               tname |-> op.tname, tfields |-> op.tfields]
  /\ ncalls' = ncalls + 1
  /\ pc' = "idle" /\ op' = NoOp /\ entry' = [kind |-> "none", tool |-> "none"]
  /\ caller' = "none" /\ lrOpts' = NoOpts /\ todo' = <<>> /\ acc' = <<>>
  /\ cur' = <<>> /\ saved' = <<>> /\ pending' = NoReq /\ reply' = NoReply
  /\ log' = <<>> /\ first' = NoFirst /\ faulty' = FALSE /\ ret' = NoRet /\ out' = NoOut
  /\ UNCHANGED <<store, tree, walkVars, escVars, sideVars>>

\* ----------------------------------------------------------- specification
\* ---- the formula search (part_008 355-377, part_006 239-260)
DQ == "\""
BS == "\\"
Chars == {DQ, BS, "a"}

RECURSIVE escapeQuotes(_)
\* searchTerm.replace(/"/g, '\\"')
escapeQuotes(t) ==
  IF t = <<>> THEN <<>>
  ELSE (IF Head(t) = DQ THEN <<BS, DQ>> ELSE <<Head(t)>>) \o escapeQuotes(Tail(t))

RECURSIVE escapeQuotesAndBackslashes(_)
\* searchTerm.replace(/["\\]/g, '\\$&')
escapeQuotesAndBackslashes(t) ==
  IF t = <<>> THEN <<>>
  ELSE (IF Head(t) \in {DQ, BS} THEN <<BS, Head(t)>> ELSE <<Head(t)>>)
       \o escapeQuotesAndBackslashes(Tail(t))

\* `FIND("${escaped}", {${fieldId}})`, from the opening quote on.
FindLiteral(escaped) == <<DQ>> \o escaped \o <<DQ, ",", "{", "f", "}", ")">>

NoFormula == [by |-> "none", text |-> <<>>]

\* AITableService.searchRecords builds its condition (part_008 365-368).
AITableService_searchRecords ==
  /\ formula.by = "none"
  /\ formula' = [by |-> "AITableService", text |-> FindLiteral(escapeQuotes(searchTerm))]
  /\ UNCHANGED <<store, tree, entry, op, pc, caller, lrOpts, todo, acc, cur, saved,
                 pending, reply, log, first, faulty, ret, out, last, ncalls,
                 walkVars, sideVars, searchTerm>>

\* AirtableService.searchRecords builds its condition (part_006 249-257).
AirtableService_searchRecords ==
  /\ formula.by = "none"
  /\ formula' = [by |-> "AirtableService",
                 text |-> FindLiteral(escapeQuotesAndBackslashes(searchTerm))]
  /\ UNCHANGED <<store, tree, entry, op, pc, caller, lrOpts, todo, acc, cur, saved,
                 pending, reply, log, first, faulty, ret, out, last, ncalls,
                 walkVars, sideVars, searchTerm>>

NoProjection == [table |-> <<>>, level |-> "none", applied |-> 0, first |-> <<>>, second |-> <<>>]
Constructed(key) == [st |-> "ok", apiKey |-> key]

\* The parts of the state a specification that does not use them holds fixed.
NoSchema == [st |-> "none", val |-> <<>>]

NoFrame == <<>>

Aside ==
  /\ projection = NoProjection /\ instance = Constructed("key") /\ toolSchema = NoSchema
  /\ suspended = NoFrame /\ answers = {}

Quiet ==
  /\ entry = [kind |-> "none", tool |-> "none"]
  /\ op = NoOp /\ pc = "idle" /\ caller = "none" /\ lrOpts = NoOpts
  /\ todo = <<>> /\ acc = <<>> /\ cur = <<>> /\ saved = <<>>
  /\ pending = NoReq /\ reply = NoReply /\ log = <<>> /\ first = NoFirst /\ faulty = FALSE
  /\ ret = NoRet /\ out = NoOut /\ last = NoLast /\ ncalls = 0
  /\ work = <<>> /\ allDatasheets = <<>> /\ failedNodes = {} /\ formula = NoFormula

Init ==
  /\ store \in [tables : {<<>>, <<InitTable>>}, pages : 1..MaxPages]
  /\ tree = <<>> /\ searchTerm = <<>>
  /\ Quiet /\ Aside

Next ==
  \/ Call \/ executeToolDirectly \/ Respond \/ toolCallback \/ Finish
  \/ listBases_primary \/ listBases_fallback
  \/ getBaseSchema_primary \/ getBaseSchema_nodes
  \/ getBaseSchema_fields \/ getBaseSchema_views
  \/ listRecords_primary \/ listRecords_fallback
  \/ getRecord_primary \/ getRecord_fallback
  \/ createTable_posted \/ createTable_refetched
  \/ updateTable_patched \/ updateTable_refetched
  \/ createField_primary \/ createField_fallback
  \/ updateField_primary \/ updateField_fallback
  \/ searchRecords_primary \/ searchRecords_fallback

Spec == Init /\ [][Next]_vars

\* ------------------------------------------ createTable, then getBaseSchema
\* One store, two calls: createTable and, once it has succeeded, getBaseSchema
\* of the same base.
createTable_call ==
  /\ ncalls = 0
  /\ \E o \in OpInputs : o.name = "createTable" /\ Start(o, "direct", "none")

getBaseSchema_call ==
  /\ ncalls = 1 /\ last.name = "createTable" /\ last.st = "ok"
  /\ Start([NoOp EXCEPT !.name = "getBaseSchema", !.baseId = "b1"], "direct", "none")

NextPair ==
  \/ createTable_call \/ getBaseSchema_call \/ Respond \/ Finish
  \/ createTable_posted \/ createTable_refetched
  \/ getBaseSchema_primary \/ getBaseSchema_nodes
  \/ getBaseSchema_fields \/ getBaseSchema_views

SpecPair == Init /\ [][NextPair]_vars

\* ====================================================================
\* Properties of the adapter and the facade (specification Spec)
\* ====================================================================
Dual == {"listBases", "getBaseSchema", "listRecords", "getRecord",
         "createField", "updateField", "searchRecords"}

SecondaryIssued == \E i \in 1..Len(log) : ~IsPrimaryUrl(log[i].url)

\* What the method returns from the parsed primary-dialect body d.
PrimaryResult(name, d) ==
  CASE name \in {"listRecords", "searchRecords"} -> d.records
    [] name = "getRecord" -> [id |-> d.id, fields |-> d.fields]
    [] OTHER -> d

PrimaryOnly ==
  /\ ~SecondaryIssued
  /\ pc = "done" =>
       /\ ret.st = "ok"
       /\ ret.val \in {PrimaryResult(op.name, d) : d \in Payloads(log[1])}

RECURSIVE PagesUpTo(_)
PagesUpTo(n) ==
  IF n = 0 THEN <<>>
  ELSE PagesUpTo(n - 1) \o [i \in 1..Len(Page(n)) |-> AsPrimaryRec(Page(n)[i])]

C2_FollowsOffset ==
  (op.name = "listRecords" /\ op.filter = "" /\ pc = "done"
     /\ fetchFromAPI(first) = "OK" /\ ~SecondaryIssued)
  => /\ Len(log) = store.pages
     /\ \A i \in 2..Len(log) : log[i].body.offset = OffsetOf(i)
     /\ ret.st = "ok" /\ ret.val = PagesUpTo(store.pages)

\* C3: when the adapter method a tool calls throws, the tool call completes
\* normally with an envelope whose isError flag is true and whose text carries
\* the error message; nothing is thrown out of the tool-call entry points.
C3_ErrorsBecomeEnvelopes ==
  (entry.kind = "tool" /\ out.st # "none" /\ ret.st = "err")
  => /\ out.st = "returned"
     /\ "isError" \in DOMAIN out.env /\ out.env.isError = TRUE
     /\ out.env.content[1].text = JSONstringify(ret.err)

\* C4: a successful tool call returns exactly {content: [{type: "text",
\* mimeType: "application/json", text: JSON of the adapter's result itself}],
\* isError: false}.
C4_SuccessEnvelope ==
  (entry.kind = "tool" /\ out.st # "none" /\ ret.st = "ok")
  => /\ out.st = "returned"
     /\ out.env = [content |-> <<[type |-> "text", mimeType |-> "application/json",
                                  text |-> JSONstringify(ret.val)]>>,
                   isError |-> FALSE]

\* C7: searchRecords with a fieldIds entry that is not a text-typed field of
\* the table fails with a validation error naming each invalid id, and issues
\* no record search or record list request.
TextTypes == {"singleLineText", "multilineText", "richText", "email", "url", "phoneNumber"}

TextFieldIds(tableId) ==
  LET i == FindIdx(store.tables, tableId) IN
  IF i = 0 THEN {}
  ELSE {store.tables[i].fields[j].id :
          j \in {k \in 1..Len(store.tables[i].fields) :
                   store.tables[i].fields[k].type \in TextTypes}}

InvalidIds(o) == {o.fieldIds[k] : k \in 1..Len(o.fieldIds)} \ TextFieldIds(o.tableId)

C7_InvalidFieldIdsRejected ==
  (op.name = "searchRecords" /\ InvalidIds(op) # {})
  => /\ \A i \in 1..Len(log) :
          log[i].kind \notin {"search.primary", "search.secondary",
                              "records.primary", "records.secondary"}
     /\ pc = "done" => (ret.st = "err" /\ ret.err[1] = "Invalid fields requested")

\* C10: createTable and updateTable issue the mutating request first and only
\* then the requests of getBaseSchema; they return the table of the re-fetched
\* schema whose id is the created/targeted id, and fail with "... not found in
\* schema" when the re-fetched schema holds no such table.
SchemaKinds == {"tables.primary", "nodes", "fields", "views"}
TargetId == IF op.name = "createTable" THEN saved ELSE op.tableId

MutateThenRefetch ==
  op.name \in {"createTable", "updateTable"} =>
    /\ \A i \in 1..Len(log) : IF i = 1 THEN log[i].kind = op.name
                              ELSE log[i].kind \in SchemaKinds
    /\ pc = "resume" => Len(log) >= 2

\* The step in which the mutator resumes after getBaseSchema has settled.
ReturnsRefetched ==
  (pc = "resume" /\ caller \in {"createTable", "updateTable"} /\ pc' = "done")
  => IF ret.st = "err" THEN ret' = ret
     ELSE LET hit == {i \in 1..Len(ret.val.tables) : ret.val.tables[i].id = TargetId} IN
          IF hit = {}
          THEN ret'.st = "err" /\ ret'.err \in {<<"Created datasheet not found in schema">>,
                                                <<"Updated datasheet not found in schema">>}
          ELSE ret'.st = "ok" /\ \E i \in hit : ret'.val = ret.val.tables[i]

C10_MutateThenRefetch == [](MutateThenRefetch) /\ [][ReturnsRefetched]_vars

C10_Witness ==
  /\ op.name = "createTable" /\ pc = "done" /\ ret.st = "ok"
  /\ Len(log) >= 2 /\ ret.val.id = saved /\ Len(store.tables) = 2

\* ====================================================================
\* createTable followed by getBaseSchema (specification SpecPair)
\* ====================================================================
\* A submitted field as a schema shows it: an absent description reads '',
\* absent options read {}.
Submitted(f) ==
  [name |-> f.name, type |-> f.type,
   description |-> IF f.description = "none" THEN "" ELSE f.description,
   options |-> IF f.options = "none" THEN "{}" ELSE f.options]

ShowsCreated(schema) ==
  \E i \in 1..Len(schema.tables) :
    LET t == schema.tables[i] IN
    /\ t.id = last.val.id
    /\ t.name = last.tname
    /\ Len(t.fields) = Len(last.tfields)
    /\ \A j \in 1..Len(t.fields) :
         [name |-> t.fields[j].name, type |-> t.fields[j].type,
          description |-> t.fields[j].description, options |-> t.fields[j].options]
           = Submitted(last.tfields[j])

FollowUpDone ==
  /\ ncalls = 1 /\ last.name = "createTable" /\ last.st = "ok"
  /\ op.name = "getBaseSchema" /\ pc = "done" /\ ret.st = "ok" /\ ~faulty

\* C9: after createTable(baseId, name, fields) has succeeded, a getBaseSchema of
\* the same base that follows at once on the same store, its requests answered
\* from that store, contains a table with the id createTable returned, the
\* submitted name and the submitted fields.
C9_CreateThenSchema == FollowUpDone => ShowsCreated(ret.val)

C9_Witness ==
  /\ FollowUpDone /\ Len(last.tfields) = 2 /\ Len(ret.val.tables) = 2
  /\ SecondaryIssued

\* ====================================================================
\* getAllDatasheets over a node tree (specification SpecWalk)
\* ====================================================================
getAllDatasheets_call ==
  /\ ncalls = 0
  /\ Start([NoOp EXCEPT !.name = "getAllDatasheets", !.baseId = "b1"], "direct", "none")

InitWalk ==
  /\ store = [tables |-> <<>>, pages |-> 1]
  /\ tree \in Trees /\ searchTerm = <<>>
  /\ Quiet /\ Aside

NextWalk ==
  \/ getAllDatasheets_call \/ Respond
  \/ getAllDatasheets_listed \/ processNode_fetched

SpecWalk == InitWalk /\ [][NextWalk]_vars

\* The path the folder chain of node i spells.
RECURSIVE PathOf(_)
PathOf(i) ==
  IF tree[i].parent = 0 THEN tree[i].name
  ELSE PathOf(tree[i].parent) \o " > " \o tree[i].name

RECURSIVE Depth(_)
Depth(i) == IF tree[i].parent = 0 THEN 0 ELSE 1 + Depth(tree[i].parent)

RECURSIVE Chain(_)
Chain(i) ==
  IF tree[i].parent = 0
  THEN (IF tree[i].type = "Datasheet" THEN {0} ELSE {0, i})
  ELSE Chain(tree[i].parent) \cup {i}

Discoverable ==
  {i \in 1..Len(tree) : tree[i].type = "Datasheet" /\ Chain(i) \cap failedNodes = {}}

\* C6: getAllDatasheets never fails; whatever fetches fail, it resolves with a
\* list holding exactly the datasheets whose chain of fetches all succeeded, so
\* a failed fetch costs only the subtree under the failing node.
C6_PartialResultsNeverFailure ==
  op.name = "getAllDatasheets" =>
    /\ ret.st # "err"
    /\ pc = "done" =>
         /\ ret.st = "ok"
         /\ Len(ret.val) = Cardinality(Discoverable)
         /\ {FindIdx(tree, ret.val[k].id) : k \in 1..Len(ret.val)} = Discoverable

C6_Witness ==
  /\ pc = "done" /\ op.name = "getAllDatasheets"
  /\ failedNodes # {} /\ 0 \notin failedNodes /\ Len(ret.val) >= 1

\* ====================================================================
\* The search formula's quoted literal (specification SpecEsc)
\* ====================================================================
RECURSIVE SeqsUpTo(_)
SeqsUpTo(n) ==
  IF n = 0 THEN {<<>>}
  ELSE SeqsUpTo(n - 1) \cup {Append(t, c) : t \in SeqsUpTo(n - 1), c \in Chars}

InitEsc ==
  /\ store = [tables |-> <<>>, pages |-> 1]
  /\ tree = <<>> /\ searchTerm \in SeqsUpTo(MaxLen)
  /\ Quiet /\ Aside

NextEsc == AITableService_searchRecords \/ AirtableService_searchRecords

SpecEsc == InitEsc /\ [][NextEsc]_vars

\* How a formula reader takes a quoted literal: from position i, a backslash
\* makes the next character part of the text, an unescaped quote ends it.
RECURSIVE ReadLiteral(_, _, _)
ReadLiteral(f, i, text) ==
  IF i > Len(f) THEN [end |-> 0, text |-> text]
  ELSE IF f[i] = BS
  THEN (IF i + 1 > Len(f) THEN [end |-> 0, text |-> text]
        ELSE ReadLiteral(f, i + 2, Append(text, f[i + 1])))
  ELSE IF f[i] = DQ THEN [end |-> i, text |-> text]
  ELSE ReadLiteral(f, i + 1, Append(text, f[i]))

\* The position of the closing quote the adapter wrote.
ClosingQuote(f) == Len(f) - 5

LiteralRoundTrips(f, term) ==
  /\ ReadLiteral(f, 2, <<>>).end = ClosingQuote(f)
  /\ ReadLiteral(f, 2, <<>>).text = term

\* C8: in the formula searchRecords builds, the quoted literal of FIND ends
\* only at the closing quote the adapter wrote, and un-escaping it gives back
\* the search term, whatever quotes and backslashes the term holds.
C8_LiteralRoundTrips ==
  formula.by # "none" => LiteralRoundTrips(formula.text, searchTerm)

\* The same, of the formula AirtableService.searchRecords builds.
AirtableServiceLiteralRoundTrips ==
  formula.by = "AirtableService" => LiteralRoundTrips(formula.text, searchTerm)


\* ====================================================================
\* Field mutations (specification Spec)
\* ====================================================================
\* C11: createField and updateField, once their mutating request has
\* succeeded, call getBaseSchema and return the field found by id in the
\* re-fetched schema, never the field object of the mutation response.
C11_FieldRefetched ==
  (op.name \in {"createField", "updateField"} /\ pc = "done" /\ ret.st = "ok")
  => \E i \in 2..Len(log) : log[i].kind \in SchemaKinds


\* ====================================================================
\* list_tables and its detail level (specification SpecProj)
\* ====================================================================
DetailLevels == {"tableIdentifiersOnly", "identifiersOnly", "full", "omitted"}

\* What the list_tables case returns for one table of the schema
\* (part_003 241-247): the same five properties whatever args.detailLevel is.
list_tables_map(table, detailLevel) ==
  [id |-> table.id, name |-> table.name, description |-> table.description,
   fields |-> table.fields, views |-> table.views]

list_tables ==
  /\ projection.applied < 2
  /\ projection' =
       IF projection.applied = 0
       THEN [projection EXCEPT !.applied = 1,
               !.first = list_tables_map(projection.table, projection.level)]
       ELSE [projection EXCEPT !.applied = 2,
               !.second = list_tables_map(projection.table, projection.level)]
  /\ UNCHANGED <<store, tree, entry, op, pc, caller, lrOpts, todo, acc, cur, saved,
                 pending, reply, log, first, faulty, ret, out, last, ncalls,
                 walkVars, escVars, instance, toolSchema, suspended, answers>>

SchemaTables ==
  {PrimaryTable(StoredTable(i, n, [j \in 1..Len(fs) |-> ToAITableField(fs[j])])) :
     i \in 1..MaxTables, n \in {"Tasks", "New"}, fs \in FieldLists}

InitProj ==
  /\ store = [tables |-> <<>>, pages |-> 1]
  /\ tree = <<>> /\ searchTerm = <<>>
  /\ Quiet /\ instance = Constructed("key") /\ toolSchema = NoSchema
  /\ suspended = NoFrame /\ answers = {}
  /\ projection \in {[NoProjection EXCEPT !.table = t, !.level = l] :
                       t \in SchemaTables, l \in DetailLevels}

NextProj == list_tables

SpecProj == InitProj /\ [][NextProj]_vars

IdName(x) == [id |-> x.id, name |-> x.name]

\* The projection of a table the detail level asks for.
Detail(table, level) ==
  CASE level = "tableIdentifiersOnly" -> IdName(table)
    [] level = "identifiersOnly" ->
         [id |-> table.id, name |-> table.name,
          fields |-> [j \in 1..Len(table.fields) |-> IdName(table.fields[j])],
          views |-> [j \in 1..Len(table.views) |-> IdName(table.views[j])]]
    [] OTHER -> table

\* C12: list_tables projects each table by detailLevel: {id, name} for
\* "tableIdentifiersOnly", ids and names of the table, its fields and its
\* views for "identifiersOnly", the complete table for "full" or no level;
\* a second application to the same table gives the same result.
C12_ProjectsByDetailLevel ==
  /\ projection.applied >= 1 =>
       projection.first = Detail(projection.table, projection.level)
  /\ projection.applied = 2 => projection.second = projection.first

\* The part of it that is about purity alone.
ProjectionRepeats == projection.applied = 2 => projection.second = projection.first


\* ====================================================================
\* Calling a tool by name (specification SpecFacade)
\* ====================================================================
\* The operation names the README's Tools section lists.
SupportedNames ==
  {"list_bases", "list_tables", "describe_table", "list_records", "search_records",
   "get_record", "create_record", "update_records", "delete_records",
   "create_table", "update_table", "create_field", "update_field"}

\* The names setupTools registers.
RegisteredTools ==
  {"list_bases", "get_base_schema", "list_records", "get_record", "create_record",
   "update_records", "delete_records", "create_table", "update_table",
   "create_field", "list_all_datasheets"}

\* A property the argument object does not have reads as undefined, and a
\* template string prints it as "undefined".
Undefined == "undefined"

\* The required string properties of each registered tool's declared shape,
\* by the names the adapter's parameters have here.
ToolShape ==
  [list_bases |-> {}, list_records |-> {"baseId", "tableId"},
   get_record |-> {"baseId", "tableId", "recordId"},
   create_record |-> {"baseId", "tableId"},
   update_records |-> {"baseId", "tableId"},
   delete_records |-> {"baseId", "tableId"},
   create_table |-> {"baseId", "tname"},
   update_table |-> {"baseId", "tableId"},
   create_field |-> {"baseId", "tableId", "tname"}]

ValidArgs(t, o) == \A k \in ToolShape[t] : o[k] # Undefined

BatchInputs ==
  {[NoOp EXCEPT !.name = "createRecord", !.baseId = "b1", !.tableId = "t1",
                !.fields = "v"]}
  \cup {[NoOp EXCEPT !.name = "updateRecords", !.baseId = "b1", !.tableId = "t1",
                     !.records = rs] :
          rs \in {<<[id |-> "r1", fields |-> "v"]>>,
                  <<[id |-> "r1", fields |-> "v"], [id |-> "r2", fields |-> "w"]>>}}
  \cup {[NoOp EXCEPT !.name = "deleteRecords", !.baseId = "b1", !.tableId = "t1",
                     !.recordIds = ids] : ids \in {<<"r1">>, <<"r1", "r2">>}}

\* Argument objects with a required property left out.
InvalidInputs ==
  {[NoOp EXCEPT !.name = "listRecords", !.baseId = "b1", !.tableId = Undefined],
   [NoOp EXCEPT !.name = "getRecord", !.baseId = "b1", !.tableId = "t1",
                !.recordId = Undefined],
   [NoOp EXCEPT !.name = "createRecord", !.baseId = "b1", !.tableId = Undefined,
                !.fields = "v"]}

FacadeInputs == OpInputs \cup BatchInputs \cup InvalidInputs

\* executeToolByName(name, input), reached from executeToolDirectly and from
\* the tools/call and tools/execute handlers: a name that is not registered
\* throws, a registered one has its callback called with the input as it is.
executeToolByName ==
  /\ pc = "idle" /\ ncalls = 0
  /\ \E name \in SupportedNames :
       IF name \notin RegisteredTools
       THEN /\ entry' = [kind |-> "tool", tool |-> name]
            /\ pc' = "done"
            /\ out' = [st |-> "threw", env |-> <<>>,
                       err |-> <<"Tool " \o name \o " not found">>]
            /\ UNCHANGED <<store, op, caller, lrOpts, todo, acc, cur, saved, pending,
                           reply, log, first, faulty, ret, last, ncalls, tree,
                           walkVars, escVars, sideVars>>
       ELSE \E o \in FacadeInputs : o.name = ToolOp[name] /\ Start(o, "tool", name)

NextFacade ==
  \/ executeToolByName \/ Respond \/ toolCallback \/ Finish
  \/ listBases_primary \/ listBases_fallback
  \/ listRecords_primary \/ listRecords_fallback
  \/ getRecord_primary \/ getRecord_fallback
  \/ createRecord_posted \/ updateRecords_patched \/ deleteRecords_deleted
  \/ createTable_posted \/ createTable_refetched
  \/ updateTable_patched \/ updateTable_refetched
  \/ getBaseSchema_primary \/ getBaseSchema_nodes
  \/ getBaseSchema_fields \/ getBaseSchema_views
  \/ createField_primary \/ createField_fallback

SpecFacade == Init /\ [][NextFacade]_vars

\* C13: calling any of the thirteen operation names the README lists reaches
\* the adapter method of that name and never ends in a tool-not-found outcome.
ToolNotFound == out.st = "threw" /\ out.err = <<"Tool " \o entry.tool \o " not found">>

C13_SupportedNamesRegistered ==
  (entry.kind = "tool" /\ entry.tool \in SupportedNames)
  => (/\ entry.tool \in DOMAIN ToolOp
      /\ op.name = ToolOp[entry.tool]
      /\ ~ToolNotFound)

\* C14: a tool call whose argument object does not match the tool's declared
\* shape invokes no adapter method and issues no upstream request.
C14_InvalidArgsRejected ==
  (entry.kind = "tool" /\ entry.tool \in DOMAIN ToolShape /\ ~ValidArgs(entry.tool, op))
  => (log = <<>> /\ pending = NoReq /\ op.name = "none")


\* ====================================================================
\* The get_base_schema tool (specification SpecSchema)
\* ====================================================================
MaxMerge == 2   \* nodes of the space the tool's walk may meet

SchemaTrees == {t \in Trees : Len(t) <= MaxMerge}

get_base_schema_call ==
  /\ ncalls = 0
  /\ Start([NoOp EXCEPT !.name = "getBaseSchema", !.baseId = "b1"],
           "tool", "get_base_schema")

ErrorEnvelope(err) ==
  [content |-> <<[type |-> "text", mimeType |-> "application/json",
                  text |-> JSONstringify(Wrapped("error", err))]>>,
   isError |-> TRUE]

\* getBaseSchema has settled: the callback keeps the schema and calls
\* getAllDatasheets, or its outer catch returns the error envelope.
get_base_schema_fetched ==
  /\ pc = "done" /\ entry.tool = "get_base_schema" /\ op.name = "getBaseSchema"
  /\ out.st = "none"
  /\ IF ret.st = "ok"
     THEN LET o == [op EXCEPT !.name = "getAllDatasheets"] IN
          /\ toolSchema' = [st |-> "fetched", val |-> ret.val]
          /\ op' = o /\ Invoke(o) /\ ret' = NoRet
          /\ out' = out
     ELSE /\ out' = [st |-> "returned", env |-> ErrorEnvelope(ret.err), err |-> <<>>]
          /\ UNCHANGED <<toolSchema, op, pc, lrOpts, pending, log, reply, ret>>
  /\ UNCHANGED <<store, tree, entry, caller, todo, acc, cur, saved, first, faulty,
                 last, ncalls, walkVars, escVars, projection, instance, suspended, answers>>

\* schema.tables.map: a table a discovered datasheet matches gets its path.
WithPath(table, ds) ==
  IF \E k \in 1..Len(ds) : ds[k].id = table.id
  THEN LET m == ds[CHOOSE k \in 1..Len(ds) :
                     ds[k].id = table.id /\ \A l \in 1..(k - 1) : ds[l].id # table.id]
       IN [f \in DOMAIN table \cup {"path"} |->
             IF f = "path" THEN m.path ELSE table[f]]
  ELSE table

\* The entry made for a discovered datasheet that is not among the tables.
AdditionalDatasheet(d) ==
  [id |-> d.id, name |-> d.name, path |-> d.path, description |-> "",
   primaryFieldId |-> "", fields |-> <<>>, views |-> <<>>]

MergeDatasheets(tables, ds) ==
  LET withPath == [i \in 1..Len(tables) |-> WithPath(tables[i], ds)]
      additional == SelectSeq(ds, LAMBDA d : \A i \in 1..Len(tables) : tables[i].id # d.id)
  IN withPath \o [k \in 1..Len(additional) |-> AdditionalDatasheet(additional[k])]

\* getAllDatasheets has settled: the tables are merged with what it found
\* and the schema is returned.
get_base_schema_merged ==
  /\ pc = "done" /\ entry.tool = "get_base_schema" /\ op.name = "getAllDatasheets"
  /\ out.st = "none"
  /\ LET merged == IF ret.st = "ok"
                   THEN [toolSchema.val EXCEPT !.tables = MergeDatasheets(@, ret.val)]
                   ELSE toolSchema.val
     IN /\ toolSchema' = [st |-> "merged", val |-> merged]
        /\ out' = [st |-> "returned", err |-> <<>>,
                   env |-> [content |-> <<[type |-> "text", mimeType |-> "application/json",
                                           text |-> JSONstringify(merged)]>>]]
  /\ UNCHANGED <<store, tree, entry, op, pc, caller, lrOpts, todo, acc, cur, saved,
                 pending, reply, log, first, faulty, ret, last, ncalls,
                 walkVars, escVars, projection, instance, suspended, answers>>

InitSchema ==
  /\ store = [tables |-> <<InitTable>>, pages |-> 1]
  /\ tree \in SchemaTrees /\ searchTerm = <<>>
  /\ Quiet /\ Aside

NextSchema ==
  \/ get_base_schema_call \/ Respond
  \/ getBaseSchema_primary \/ getBaseSchema_nodes
  \/ getBaseSchema_fields \/ getBaseSchema_views
  \/ get_base_schema_fetched
  \/ getAllDatasheets_listed \/ processNode_fetched
  \/ get_base_schema_merged

SpecSchema == InitSchema /\ [][NextSchema]_vars

OwnPrimaryField(t) == \E j \in 1..Len(t.fields) : t.fields[j].id = t.primaryFieldId

\* C15: every table getBaseSchema returns, and every table of the schema the
\* get_base_schema tool returns after merging the discovered datasheets, has
\* a primaryFieldId that is the id of one of its own fields.
C15_PrimaryFieldIsOwnField ==
  /\ (op.name = "getBaseSchema" /\ pc = "done" /\ ret.st = "ok")
     => \A i \in 1..Len(ret.val.tables) : OwnPrimaryField(ret.val.tables[i])
  /\ toolSchema.st = "merged"
     => \A i \in 1..Len(toolSchema.val.tables) : OwnPrimaryField(toolSchema.val.tables[i])


\* ====================================================================
\* Construction of the adapter (specification SpecCtor)
\* ====================================================================
NotConstructed == [st |-> "none", apiKey |-> ""]

\* The message of the error (the source writes the variable's name between
\* backquotes).
NoApiKeyMessage ==
  "aitable-mcp-server: No API key provided. Set it in the AITABLE_API_KEY environment variable"

\* The default of the apiKey parameter: process.env.AITABLE_API_KEY, or the
\* empty string when it is not set.
DefaultApiKey(arg, env) ==
  IF arg # Undefined THEN arg ELSE IF env = Undefined THEN "" ELSE env

\* A constructor that accepts any key.
constructor_unchecked(apiKey) == Constructed(apiKey)

\* new AITableService(apiKey): the instance, or the error thrown.
AITableService_constructor(apiKey) ==
  IF apiKey = ""
  THEN [st |-> "threw", apiKey |-> apiKey, message |-> NoApiKeyMessage]
  ELSE Constructed(apiKey)

ApiKeys == {Undefined, "", "key", "other"}

construct ==
  /\ instance = NotConstructed
  /\ \E arg \in ApiKeys, env \in ApiKeys :
       instance' = AITableService_constructor(DefaultApiKey(arg, env))
  /\ UNCHANGED <<store, tree, entry, op, pc, caller, lrOpts, todo, acc, cur, saved,
                 pending, reply, log, first, faulty, ret, out, last, ncalls,
                 walkVars, escVars, projection, toolSchema, suspended, answers>>

\* A method of the instance is called: there is an instance only when the
\* constructor has returned.
method_call ==
  /\ instance.st = "ok" /\ ncalls = 0
  /\ \E o \in OpInputs : o.name \in {"listBases", "listRecords", "getRecord"}
                         /\ Start(o, "direct", "none")

InitCtor ==
  /\ store = [tables |-> <<InitTable>>, pages |-> 1]
  /\ tree = <<>> /\ searchTerm = <<>>
  /\ Quiet /\ projection = NoProjection /\ toolSchema = NoSchema
  /\ suspended = NoFrame /\ answers = {}
  /\ instance = NotConstructed

NextCtor ==
  \/ construct \/ method_call \/ Respond \/ Finish
  \/ listBases_primary \/ listBases_fallback
  \/ listRecords_primary \/ listRecords_fallback
  \/ getRecord_primary \/ getRecord_fallback

SpecCtor == InitCtor /\ [][NextCtor]_vars

RequestIssued == pending # NoReq \/ log # <<>> \/ pc # "idle" \/ ncalls > 0

KeyedInstance ==
  /\ instance.st = "ok" => instance.apiKey # ""
  /\ instance.st = "threw" => /\ instance.apiKey = ""
                              /\ instance.message = NoApiKeyMessage
  /\ RequestIssued => (instance.st = "ok" /\ instance.apiKey # "")

ConstructionIsSilent ==
  instance' # instance => (instance = NotConstructed /\ UNCHANGED <<pending, log, pc>>)

\* C16: construction with an empty key throws with the message that names
\* AITABLE_API_KEY and leaves no instance, so a request is only ever issued
\* by an instance with a non-empty key; construction itself issues no request.
C16_NoInstanceWithoutKey == [](KeyedInstance) /\ [][ConstructionIsSilent]_vars

C16_Witness == instance.st = "threw" /\ ~RequestIssued


\* ====================================================================
\* getDatasheetRecordsByName (specification SpecByName)
\* ====================================================================
MaxNamed == 3   \* nodes of the space a lookup by name may meet

DatasheetNames == {"Tasks", "tasks"}

\* Node trees whose nodes carry names that may repeat or differ in case only.
NamedTrees ==
  {[i \in 1..Len(t) |-> [t[i] EXCEPT !.name = nm[i]]] :
     t \in {x \in Trees : Len(x) <= MaxNamed}, nm \in [1..MaxNamed -> DatasheetNames]}

\* A lookup that takes the last datasheet of the name.
find_last(datasheets, name) ==
  IF \E k \in 1..Len(datasheets) : datasheets[k].name = name
  THEN CHOOSE k \in 1..Len(datasheets) :
         datasheets[k].name = name /\ \A l \in (k + 1)..Len(datasheets) : datasheets[l].name # name
  ELSE 0

\* datasheets.find(ds => ds.name === datasheetName): the index of the first
\* entry of that name, 0 for undefined.
find_byName(datasheets, name) ==
  IF \E k \in 1..Len(datasheets) : datasheets[k].name = name
  THEN CHOOSE k \in 1..Len(datasheets) :
         datasheets[k].name = name /\ \A l \in 1..(k - 1) : datasheets[l].name # name
  ELSE 0

NotFoundByName(name, spaceId) == <<"Datasheet named", name, "not found in space", spaceId>>

\* getDatasheetRecordsByName(spaceId, datasheetName, options) up to the await
\* of getAllDatasheets.
getDatasheetRecordsByName_call ==
  /\ pc = "idle" /\ ncalls = 0
  /\ \E name \in {"Tasks", "Other"}, m \in {0, 100} :
       op' = [NoOp EXCEPT !.name = "getDatasheetRecordsByName", !.baseId = "b1",
                          !.tname = name, !.maxRecords = m]
  /\ entry' = [kind |-> "direct", tool |-> "none"]
  /\ caller' = "getDatasheetRecordsByName"
  /\ lrOpts' = [maxRecords |-> op'.maxRecords, filter |-> op'.filter]
  /\ pc' = "getAllDatasheets_1"
  /\ Send(getAllDatasheets_req(op'.baseId))
  /\ UNCHANGED <<store, tree, todo, acc, cur, saved, first, faulty, ret, out, last,
                 ncalls, walkVars, escVars, sideVars>>

\* getAllDatasheets has settled: the name is looked up and listRecords is
\* called with the id found (op.tableId is the tableId listRecords is given),
\* or the not-found error is thrown.
getDatasheetRecordsByName_found ==
  /\ pc = "resume" /\ caller = "getDatasheetRecordsByName"
  /\ caller' = "none"
  /\ LET k == find_byName(ret.val, op.tname) IN
     IF k = 0
     THEN /\ ret' = [st |-> "err", val |-> <<>>, err |-> NotFoundByName(op.tname, op.baseId)]
          /\ pc' = "done"
          /\ UNCHANGED <<op, pending, reply, log>>
     ELSE /\ op' = [op EXCEPT !.tableId = ret.val[k].id]
          /\ Send(listRecords_req(op.baseId, ret.val[k].id, lrOpts))
          /\ pc' = "listRecords_1" /\ ret' = NoRet
  /\ UNCHANGED <<store, tree, entry, lrOpts, todo, acc, cur, saved, first, faulty, out,
                 last, ncalls, walkVars, escVars, sideVars>>

InitByName ==
  /\ store = [tables |-> <<>>, pages |-> 1]
  /\ tree \in NamedTrees /\ searchTerm = <<>>
  /\ Quiet /\ Aside

NextByName ==
  \/ getDatasheetRecordsByName_call \/ Respond
  \/ getAllDatasheets_listed \/ processNode_fetched
  \/ getDatasheetRecordsByName_found
  \/ listRecords_primary \/ listRecords_fallback

SpecByName == InitByName /\ [][NextByName]_vars

RecordRequests ==
  SelectSeq(log, LAMBDA q : q.kind \in {"records.primary", "records.secondary"})

\* The discovered datasheets of the requested name, in discovery order.
Named == SelectSeq(allDatasheets, LAMBDA d : d.name = op.tname)

Resolved == pc \in {"listRecords_1", "listRecords_2", "done"}

\* C17: the records are listed from the first discovered datasheet whose name
\* is exactly the requested one, with the options given; when no discovered
\* datasheet has the name the call fails with the not-found error that
\* carries the name, and no records request is made.
C17_FirstExactNameMatch ==
  op.name = "getDatasheetRecordsByName" =>
    /\ ~Resolved => RecordRequests = <<>>
    /\ (Resolved /\ Named = <<>>) =>
         /\ pc = "done" /\ ret.st = "err"
         /\ ret.err = <<"Datasheet named", op.tname, "not found in space", op.baseId>>
         /\ RecordRequests = <<>>
    /\ (Resolved /\ Named # <<>>) =>
         /\ RecordRequests # <<>>
         /\ RecordRequests[1] =
              listRecords_req(op.baseId, Named[1].id,
                              [maxRecords |-> op.maxRecords, filter |-> op.filter])
         /\ \A i \in 1..Len(RecordRequests) : \E j \in 1..Len(RecordRequests[i].url) : RecordRequests[i].url[j] = Named[1].id

C17_Witness ==
  /\ op.name = "getDatasheetRecordsByName" /\ pc = "done" /\ ret.st = "ok"
  /\ Len(Named) >= 2 /\ op.maxRecords = 100
  /\ \E k \in 1..Len(allDatasheets) : allDatasheets[k].name = "tasks"


\* ====================================================================
\* getRecord's fallback (specification Spec)
\* ====================================================================
\* The fallback's listRecords call has settled and getRecord is about to go on.
Emulated == pc = "resume" /\ caller = "getRecord"

EmulatesWithFilter ==
  (op.name = "getRecord" /\ Len(log) >= 2) =>
    /\ fetchFromAPI(first) # "OK"
    /\ log[2] = listRecords_req(op.baseId, op.tableId,
                                [maxRecords |-> 2, filter |-> RecordIDFilter(op.recordId)])
    /\ \A i \in 2..Len(log) : log[i].body.filter = RecordIDFilter(op.recordId)

DecidedByCount ==
  (Emulated /\ ret.st = "ok") =>
    /\ pc' = "done"
    /\ Len(ret.val) >= 1 => ret' = [st |-> "ok", val |-> ret.val[1], err |-> <<>>]
    /\ Len(ret.val) = 0 =>
         /\ ret'.st = "err"
         /\ \E i \in 1..(Len(ret'.err) - 2) :
              SubSeq(ret'.err, i, i + 2) =
                <<"Record", op.recordId, "not found using RecordID filter">>

\* C18: after a failed primary fetch getRecord lists the records with the
\* filter {RecordID}='<id>' and maxRecords 2; one record returned is the
\* result, none is a not-found failure that names the record id, and of
\* several the first in the order returned is the result.
C18_FallbackDecidedByCount == [](EmulatesWithFilter) /\ [][DecidedByCount]_vars

C18_Witness == Emulated /\ ret.st = "ok" /\ Len(ret.val) = 2 /\ Len(log) >= 2


\* ====================================================================
\* Record batches (specification SpecBatch)
\* ====================================================================
batch_call ==
  /\ ncalls = 0
  /\ \E o \in BatchInputs : Start(o, "direct", "none")

NextBatch ==
  \/ batch_call \/ Respond
  \/ createRecord_posted \/ updateRecords_patched \/ deleteRecords_deleted

SpecBatch == Init /\ [][NextBatch]_vars

\* The step that ends a batch call whose response was accepted.
BatchAnswered(label) == pc = label /\ reply.body # "none" /\ ReplyOK /\ pc' = "done"

ReportedDeleted == SelectSeq(reply.data.data.results, LAMBDA r : r.deleted)

DeleteAsReported ==
  BatchAnswered("deleteRecords_1") =>
    /\ ret'.st = "ok"
    /\ Len(ret'.val) = Len(ReportedDeleted)
    /\ \A k \in 1..Len(ret'.val) : ret'.val[k] = [id |-> ReportedDeleted[k].recordId]

UpdateAsReported ==
  BatchAnswered("updateRecords_1") =>
    LET rs == reply.data.data.records IN
    /\ ret'.st = "ok"
    /\ Len(ret'.val) = Len(rs)
    /\ \A k \in 1..Len(rs) : ret'.val[k] = [id |-> rs[k].recordId, fields |-> rs[k].fields]

\* C19: deleteRecords returns the ids the server marked deleted, in the
\* server's order, and updateRecords the server's records as {id, fields};
\* a response that reports part of the batch resolves with that part.
C19_BatchAsReported == [][DeleteAsReported /\ UpdateAsReported]_vars

C19_Witness ==
  /\ op.name = "deleteRecords" /\ pc = "done" /\ ret.st = "ok"
  /\ Len(op.recordIds) = 2 /\ ret.val = <<[id |-> "r2"]>>


\* The outcome a response has when its status is looked at first.
ByStatusFirst(r) ==
  IF ~r.ok THEN "HttpError"
  ELSE IF r.body = "nojson" THEN "ParseError"
  ELSE IF r.body = "badshape" THEN "ValidationError"
  ELSE "OK"

\* C20: the request helper gives every non-2xx response the upstream-HTTP
\* error whatever its body, a 2xx response that is not JSON the parse error,
\* a 2xx JSON response of the wrong shape the validation error, and only a
\* 2xx, well-shaped JSON response a result.
C20_OneOutcomePerResponse ==
  [][(pc \in {"updateRecords_1", "deleteRecords_1"} /\ reply.body # "none") =>
       IF ByStatusFirst(reply) = "OK"
       THEN ret'.st = "ok"
       ELSE ret'.st = "err" /\ ret'.err = <<ByStatusFirst(reply)>>]_vars


\* ====================================================================
\* The two dialects of one operation (specification SpecDual)
\* ====================================================================
dual_call ==
  /\ ncalls = 0
  /\ \E o \in OpInputs : o.name \in Dual /\ Start(o, "direct", "none")

NextDual ==
  \/ dual_call \/ Respond
  \/ listBases_primary \/ listBases_fallback
  \/ getBaseSchema_primary \/ getBaseSchema_nodes
  \/ getBaseSchema_fields \/ getBaseSchema_views
  \/ listRecords_primary \/ listRecords_fallback
  \/ getRecord_primary \/ getRecord_fallback
  \/ createField_primary \/ createField_fallback
  \/ updateField_primary \/ updateField_fallback
  \/ searchRecords_primary \/ searchRecords_fallback

SpecDual == Init /\ [][NextDual]_vars

\* The failures of an attempt as they are listed: a non-2xx status, a body
\* that is not JSON, a body of the wrong shape.
ListedFailure(r) == ~r.ok \/ r.body = "nojson" \/ r.body = "badshape"

\* The step that issues the first secondary-dialect request of the call.
FirstSecondary == op.name \in Dual /\ ~SecondaryIssued /\ SecondaryIssued'

\* The request in flight is the last one issued and has no reply yet.
OneInFlight ==
  pending # NoReq => (Len(log) > 0 /\ pending = log[Len(log)] /\ reply.body = "none")

SecondaryNormalized ==
  /\ (op.name = "listBases" /\ SecondaryIssued /\ pc = "done" /\ ret.st = "ok") =>
       ret.val.bases = <<[id |-> "b1", name |-> "Base", permissionLevel |-> "owner"],
                         [id |-> "b2", name |-> "Other", permissionLevel |-> "read"]>>
  /\ (op.name = "listRecords" /\ SecondaryIssued) =>
       /\ log[2].url = <<"datasheets", op.tableId, "records">>
                       \o (IF op.maxRecords # 0
                           THEN <<"pageSize=" \o ToString(op.maxRecords)>> ELSE <<>>)
       /\ (pc = "done" /\ ret.st = "ok") =>
            ret.val = [i \in 1..Len(Page(1)) |->
                         [id |-> Page(1)[i].recordId, fields |-> Page(1)[i].fields]]

C22_PrimaryErrorPreferred ==
  (op.name \in Dual /\ pc = "done" /\ ret.st = "err" /\ Len(log) >= 2) =>
    /\ \E i \in 1..Len(ret.err) : ret.err[i] = fetchFromAPI(first)
    /\ Len(ret.err) >= 2


\* ====================================================================
\* The fallback of getBaseSchema over k datasheets (specification SpecFan)
\* ====================================================================
\* The fields the upstream holds for datasheet i: i of them, the first primary.
FanFields(i) ==
  [j \in 1..i |-> [name |-> "c" \o ToString(j), type |-> "singleLineText",
                   desc |-> "", property |-> "{}"]]

FanTables(k) == [i \in 1..k |-> StoredTable(i, "T" \o ToString(i), FanFields(i))]

getBaseSchema_fan ==
  /\ ncalls = 0
  /\ Start([NoOp EXCEPT !.name = "getBaseSchema", !.baseId = "b1"], "direct", "none")

InitFan ==
  /\ store \in {[tables |-> FanTables(k), pages |-> 1] : k \in 0..MaxTables}
  /\ tree = <<>> /\ searchTerm = <<>>
  /\ Quiet /\ Aside

NextFan ==
  \/ getBaseSchema_fan \/ Respond
  \/ getBaseSchema_primary \/ getBaseSchema_nodes
  \/ getBaseSchema_fields \/ getBaseSchema_views

SpecFan == InitFan /\ [][NextFan]_vars

\* The table of the result that stands for datasheet i of the upstream.
TableOfNode(i) ==
  LET t == store.tables[i] IN
  [id |-> t.id, name |-> t.name, description |-> "", primaryFieldId |-> t.fields[1].id,
   views |-> t.views,
   fields |-> [j \in 1..Len(t.fields) |->
                 [id |-> t.fields[j].id, name |-> t.fields[j].name,
                  type |-> t.fields[j].type, description |-> t.fields[j].desc,
                  options |-> t.fields[j].property]]]

InLoop == op.name = "getBaseSchema" /\ pc \in {"getBaseSchema_fields", "getBaseSchema_views"}

\* The tables collected are tables of nodes already visited, in listing order.
CollectedInOrder ==
  (InLoop \/ (op.name = "getBaseSchema" /\ pc = "done" /\ SecondaryIssued)) =>
    \E S \in SUBSET (1..(Len(store.tables) - Len(todo))) :
      /\ Len(acc) = Cardinality(S)
      /\ \A i \in S : acc[Cardinality({j \in S : j <= i})] = TableOfNode(i)

OnlyListingFails ==
  (op.name = "getBaseSchema" /\ pc = "done") =>
    /\ ret.st = "err" => Len(log) = 2
    /\ (ret.st = "ok" /\ SecondaryIssued) => ret.val.tables = acc

\* A node's reply decides that node's table and nothing else.
PerNode ==
  (InLoop /\ reply.body # "none") =>
    LET ok == fetchFromAPI(reply) = "OK" IN
    /\ ret'.st # "err"
    /\ todo' = IF pc = "getBaseSchema_fields" /\ ok THEN todo ELSE Tail(todo)
    /\ acc' = IF pc = "getBaseSchema_views" /\ ok
              THEN Append(acc, TableOfNode(FindIdx(store.tables, todo[1].id)))
              ELSE acc

\* C23: in the fallback of getBaseSchema a failed fields or views fetch of a
\* node skips that node only: the call still resolves, with the tables of
\* the nodes whose two fetches succeeded, in the order of the node listing.
C23_FailedNodeSkipped == [](CollectedInOrder /\ OnlyListingFails) /\ [][PerNode]_vars

C23_Witness ==
  /\ op.name = "getBaseSchema" /\ pc = "done" /\ ret.st = "ok" /\ faulty
  /\ Len(store.tables) = 2 /\ Len(ret.val.tables) = 1 /\ ret.val.tables[1].id = "t2"

RECURSIVE FanOut(_)
FanOut(k) ==
  IF k = 0 THEN <<>>
  ELSE FanOut(k - 1) \o <<Req("fields", "GET", <<"datasheets", TblId(k), "fields">>, <<>>),
                          Req("views", "GET", <<"datasheets", TblId(k), "views">>, <<>>)>>

\* C24: when every request of the fallback succeeds, the fallback of
\* getBaseSchema over k datasheet nodes issues 1 + 2k requests: the node
\* listing, then per node, in listing order, the fields and the views request.
C24_OnePlusTwoK ==
  (op.name = "getBaseSchema" /\ pc = "done" /\ SecondaryIssued /\ ~faulty) =>
    /\ Len(log) - 1 = 1 + 2 * Len(store.tables)
    /\ Tail(Tail(log)) = FanOut(Len(store.tables))
    /\ log[2].kind = "nodes"

C24_Witness ==
  /\ op.name = "getBaseSchema" /\ pc = "done" /\ SecondaryIssued /\ ~faulty
  /\ Len(store.tables) = 2 /\ Len(log) = 6 /\ Len(ret.val.tables) = 2


\* ====================================================================
\* searchRecords on a table with or without text fields (specification SpecSearch)
\* ====================================================================
\* A table whose only field is of the given type.
OneFieldTable(type) ==
  StoredTable(1, "Tasks", <<[name |-> "Col", type |-> type, desc |-> "", property |-> "{}"]>>)

searchRecords_call ==
  /\ ncalls = 0
  /\ \E o \in OpInputs : o.name = "searchRecords" /\ Start(o, "direct", "none")

InitSearch ==
  /\ store \in {[tables |-> <<OneFieldTable(type)>>, pages |-> 1] :
                  type \in {"singleLineText", "number"}}
  /\ tree = <<>> /\ searchTerm = <<>>
  /\ Quiet /\ Aside

NextSearch ==
  \/ searchRecords_call \/ Respond
  \/ searchRecords_primary \/ searchRecords_fallback

SpecSearch == InitSearch /\ [][NextSearch]_vars

\* C25: searchRecords on a table without any text-typed field issues no
\* record request and fails with the validation error, with or without
\* fieldIds.
C25_NoSearchableFieldsRejected ==
  (op.name = "searchRecords" /\ FindIdx(store.tables, op.tableId) > 0
     /\ TextFieldIds(op.tableId) = {})
  => /\ \A i \in 1..Len(log) :
          log[i].kind \notin {"search.primary", "search.secondary",
                              "records.primary", "records.secondary"}
     /\ pc = "done" => (ret.st = "err" /\ ret.err = <<"No text fields available to search">>)


\* ====================================================================
\* One call of any adapter method (specification SpecOnce)
\* ====================================================================
once_call ==
  /\ ncalls = 0
  /\ \E o \in OpInputs \cup BatchInputs : Start(o, "direct", "none")

\* getAllDatasheets is called; the node tree of the space is fixed then.
once_walk ==
  /\ pc = "idle" /\ ncalls = 0
  /\ tree' \in SchemaTrees
  /\ LET o == [NoOp EXCEPT !.name = "getAllDatasheets", !.baseId = "b1"] IN
     op' = o /\ Invoke(o)
  /\ entry' = [kind |-> "direct", tool |-> "none"]
  /\ UNCHANGED <<store, caller, todo, acc, cur, saved, first, faulty, ret, out, last,
                 ncalls, walkVars, escVars, sideVars>>

NextOnce ==
  \/ once_call \/ once_walk \/ Respond
  \/ listBases_primary \/ listBases_fallback
  \/ getBaseSchema_primary \/ getBaseSchema_nodes
  \/ getBaseSchema_fields \/ getBaseSchema_views
  \/ listRecords_primary \/ listRecords_fallback
  \/ getRecord_primary \/ getRecord_fallback
  \/ createRecord_posted \/ updateRecords_patched \/ deleteRecords_deleted
  \/ createTable_posted \/ createTable_refetched
  \/ updateTable_patched \/ updateTable_refetched
  \/ createField_primary \/ createField_fallback
  \/ updateField_primary \/ updateField_fallback
  \/ searchRecords_primary \/ searchRecords_fallback
  \/ getAllDatasheets_listed \/ processNode_fetched

SpecOnce == Init /\ [][NextOnce]_vars

NoRequestTwice ==
  \A i, j \in 1..Len(log) :
    i < j => <<log[i].m, log[i].url>> # <<log[j].m, log[j].url>>

\* The reply at hand is a failure of a request that has no fallback.
FailedForGood == reply.body # "none" /\ fetchFromAPI(reply) # "OK"
                 /\ ~IsPrimaryUrl(log[Len(log)].url)

SurfacedAtOnce == log' = log /\ ret'.st = "err" /\ pc' \in {"done", "resume"}

\* The requests made per node, whose failure skips the node.
PerNodeKinds == {"fields", "views", "space.nodes", "node.detail"}

ChildIdx(p) ==
  SelectSeq([i \in 1..Len(tree) |-> i], LAMBDA i : tree[i].parent = p)

\* The visits a depth-first walk of the nodes sq makes, a folder's children
\* before the folder's next sibling; a node whose fetch failed has no
\* children to show.
RECURSIVE VisitsFrom(_)
VisitsFrom(sq) ==
  IF sq = <<>> THEN <<>>
  ELSE LET i == Head(sq) IN
       <<i>> \o (IF tree[i].type = "Folder" /\ i \notin failedNodes
                 THEN VisitsFrom(ChildIdx(i)) ELSE <<>>)
            \o VisitsFrom(Tail(sq))

ExpectedVisits ==
  IF 0 \in failedNodes THEN <<>>
  ELSE VisitsFrom(SelectSeq(ChildIdx(0), LAMBDA i : tree[i].type = "Folder"))

Visited ==
  LET qs == SelectSeq(log, LAMBDA q : q.kind = "node.detail") IN
  [k \in 1..Len(qs) |-> FindIdx(tree, qs[k].url[4])]

ExpectedList ==
  IF 0 \in failedNodes THEN <<>>
  ELSE SelectSeq(ChildIdx(0), LAMBDA i : tree[i].type = "Datasheet")
       \o SelectSeq(ExpectedVisits,
                    LAMBDA i : tree[i].type = "Datasheet" /\ i \notin failedNodes)

\* C27: during getAllDatasheets the request in flight is the only one, the
\* nodes are visited in the order a depth-first walk of the upstream's
\* listings gives, and the list returned is in that order.
C27_SequentialDepthFirst ==
  op.name = "getAllDatasheets" =>
    /\ pending # NoReq => (pending = log[Len(log)] /\ reply.body = "none")
    /\ Len(Visited) <= Len(ExpectedVisits)
    /\ Visited = SubSeq(ExpectedVisits, 1, Len(Visited))
    /\ pc = "done" =>
         /\ Visited = ExpectedVisits
         /\ [k \in 1..Len(ret.val) |-> FindIdx(tree, ret.val[k].id)] = ExpectedList

C27_Witness ==
  /\ op.name = "getAllDatasheets" /\ pc = "done" /\ failedNodes = {}
  /\ Visited = <<1, 3, 2>> /\ Len(ret.val) = 2


\* ====================================================================
\* The walk over listings that loop (specification SpecCycle)
\* ====================================================================
MaxVisits == 7   \* requests of one walk that are recorded

\* The folders on the way from the top level to node i, and i itself.
RECURSIVE Upward(_, _)
Upward(t, i) == IF t[i].parent = 0 THEN {i} ELSE {i} \cup Upward(t, t[i].parent)

\* Node trees, and node trees in which the children of one folder also list
\* the folder itself or a folder above it (that node's entry, once more,
\* under the folder).
LoopingTrees ==
  SchemaTrees \cup
  UNION {UNION {{Append(t, [t[a] EXCEPT !.parent = i]) : a \in Upward(t, i)} :
                  i \in {k \in 1..Len(t) : t[k].type = "Folder"}} :
           t \in SchemaTrees}

\* A node-detail reply is handled, while the walk is recorded.
processNode_visit == Len(log) < MaxVisits /\ processNode_fetched

\* The same step of a walk longer than that: the visits go on as the code
\* makes them, and the log, the paths and the entries found stop growing.
processNode_folded ==
  /\ Got("processNode") /\ Len(log) >= MaxVisits
  /\ LET node == reply.data.data
         w == IF ReplyOK /\ reply.data.success /\ node.type = "Folder"
              THEN [k \in 1..Len(node.children) |->
                      [id |-> node.children[k].id, nodePath |-> work[1].nodePath]]
                   \o Tail(work)
              ELSE Tail(work)
     IN /\ work' = w
        /\ IF w = <<>>
           THEN Settle("ok", allDatasheets, <<>>)
           ELSE /\ pending' = processNode_req(op.baseId, w[1].id)
                /\ reply' = NoReply /\ log' = log
                /\ pc' = "processNode" /\ ret' = ret
  /\ UNCHANGED <<store, tree, entry, op, first, faulty, out, last, ncalls, escVars, sideVars,
                 caller, lrOpts, todo, acc, cur, saved, allDatasheets, failedNodes>>

InitCycle ==
  /\ store = [tables |-> <<>>, pages |-> 1]
  /\ tree \in LoopingTrees /\ searchTerm = <<>>
  /\ Quiet /\ Aside

NextCycle ==
  \/ getAllDatasheets_call \/ Respond
  \/ getAllDatasheets_listed \/ processNode_visit \/ processNode_folded

\* Every request is answered and every reply handled.
SpecCycle == InitCycle /\ [][NextCycle]_vars /\ WF_vars(NextCycle)

\* C28: getAllDatasheets resolves, whatever children the node-detail
\* responses list, a folder's own id or an ancestor's among them.
C28_WalkTerminates == <>(pc = "done")

WalkOfTreeTerminates == (tree \in SchemaTrees) => <>(pc = "done")


\* ====================================================================
\* Two calls on one instance, interleaved at their awaits
\* (specification SpecShared)
\* ====================================================================
\* What a call holds in its parameters, its locals and its promise.
Locals ==
  [entry |-> entry, op |-> op, pc |-> pc, caller |-> caller, lrOpts |-> lrOpts,
   todo |-> todo, acc |-> acc, cur |-> cur, saved |-> saved,
   pending |-> pending, reply |-> reply, log |-> log, first |-> first,
   faulty |-> faulty, ret |-> ret, work |-> work,
   allDatasheets |-> allDatasheets, failedNodes |-> failedNodes]

\* An accumulator kept on the instance: every call pushes to the same array.
getAllDatasheets_accumulator_field(f) == allDatasheets

\* The accumulator is a const of the call, handed on to processNode; the
\* instance has three readonly fields and no other.
getAllDatasheets_accumulator(f) == f.allDatasheets

\* The event loop runs the continuation of the other call: the call that was
\* running waits at its await (or has settled), with its locals.
interleave ==
  /\ pc # "idle"
  /\ suspended' = Locals
  /\ entry' = suspended.entry /\ op' = suspended.op /\ pc' = suspended.pc
  /\ caller' = suspended.caller /\ lrOpts' = suspended.lrOpts
  /\ todo' = suspended.todo /\ acc' = suspended.acc /\ cur' = suspended.cur
  /\ saved' = suspended.saved /\ pending' = suspended.pending
  /\ reply' = suspended.reply /\ log' = suspended.log
  /\ first' = suspended.first /\ faulty' = suspended.faulty
  /\ ret' = suspended.ret /\ work' = suspended.work
  /\ allDatasheets' = getAllDatasheets_accumulator(suspended)
  /\ failedNodes' = suspended.failedNodes
  /\ UNCHANGED <<store, tree, out, last, ncalls, escVars,
                 projection, instance, toolSchema, answers>>

\* The answers of the upstream that is interleaved against: a 2xx or a
\* failing status, with a JSON body of the right shape or of another.
SteadyResps == {r \in Resps : ~r.html /\ r.body # "nojson"}

\* An upstream that does not change: a request that was answered before is
\* answered the same way again.
Respond_steady ==
  /\ pending.m # "none"
  /\ \E r \in SteadyResps :
       \E d \in (IF fetchFromAPI(r) = "OK" THEN Payloads(pending) ELSE {<<>>}) :
         /\ \A a \in answers : a.q = pending => (a.r = r /\ a.d = d)
         /\ answers' = answers \cup {[q |-> pending, r |-> r, d |-> d]}
         /\ reply' = [ok |-> r.ok, html |-> r.html, body |-> r.body, data |-> d]
         /\ first' = IF Len(log) = 1 THEN r ELSE first
         /\ faulty' = (faulty \/ (~IsPrimaryUrl(pending.url) /\ fetchFromAPI(r) # "OK"))
  /\ pending' = NoReq
  /\ UNCHANGED <<store, entry, op, pc, caller, lrOpts, todo, acc, cur, saved, log,
                 ret, out, last, ncalls, tree, walkVars, escVars,
                 projection, instance, toolSchema, suspended>>

SharedInputs ==
  { [NoOp EXCEPT !.name = "getAllDatasheets", !.baseId = "b1"],
    [NoOp EXCEPT !.name = "listRecords", !.baseId = "b1", !.tableId = "t1"] }

shared_call == \E o \in SharedInputs : Start(o, "direct", "none")

InitShared ==
  /\ store = [tables |-> <<InitTable>>, pages |-> 1]
  /\ tree \in SchemaTrees /\ searchTerm = <<>>
  /\ Quiet
  /\ projection = NoProjection /\ instance = Constructed("key") /\ toolSchema = NoSchema
  /\ suspended = Locals /\ answers = {}

NextShared ==
  \/ shared_call \/ Respond_steady \/ interleave
  \/ getAllDatasheets_listed \/ processNode_fetched
  \/ listRecords_primary \/ listRecords_fallback

SpecShared == InitShared /\ [][NextShared]_vars

\* ---- what a call returns when it runs alone against these answers
Failing(a) == fetchFromAPI(a.r) # "OK"

NodeReq(i) ==
  IF i = 0 THEN getAllDatasheets_req("b1") ELSE processNode_req("b1", tree[i].id)

\* The nodes whose request the upstream answers with a failure.
Down ==
  {i \in 0..Len(tree) :
     \E a \in answers : a.q = NodeReq(i) /\ (Failing(a) \/ ~a.d.success)}

RECURSIVE AloneVisits(_)
AloneVisits(sq) ==
  IF sq = <<>> THEN <<>>
  ELSE LET i == Head(sq) IN
       <<i>> \o (IF tree[i].type = "Folder" /\ i \notin Down
                 THEN AloneVisits(ChildIdx(i)) ELSE <<>>)
            \o AloneVisits(Tail(sq))

getAllDatasheets_alone ==
  IF 0 \in Down THEN <<>>
  ELSE LET found ==
             SelectSeq(ChildIdx(0), LAMBDA i : tree[i].type = "Datasheet")
             \o SelectSeq(
                  AloneVisits(SelectSeq(ChildIdx(0), LAMBDA i : tree[i].type = "Folder")),
                  LAMBDA i : tree[i].type = "Datasheet" /\ i \notin Down)
       IN [k \in 1..Len(found) |->
             DatasheetInfo(tree[found[k]].id, tree[found[k]].name,
                           PathOf(found[k]), "b1")]

listRecords_alone(o) ==
  LET a1 == CHOOSE a \in answers : a.q = listRecords_req(o.baseId, o.tableId, NoOpts)
      a2 == CHOOSE a \in answers :
              a.q = Req("records.secondary", "GET", <<"datasheets", o.tableId, "records">>,
                        [filter |-> "", offset |-> "none"])
  IN IF ~Failing(a1) THEN [st |-> "ok", val |-> a1.d.records, err |-> <<>>]
     ELSE IF ~Failing(a2)
     THEN [st |-> "ok",
           val |-> [i \in 1..Len(a2.d.data.records) |->
                      FromSecondaryRec(a2.d.data.records[i])],
           err |-> <<>>]
     ELSE [st |-> "err", val |-> <<>>, err |-> ErrorOf(a2.r)]

IsPrefix(s, t) == Len(s) <= Len(t) /\ s = SubSeq(t, 1, Len(s))

AsAlone(f) ==
  /\ f.op.name = "getAllDatasheets" =>
       /\ f.pc = "processNode" => IsPrefix(f.allDatasheets, getAllDatasheets_alone)
       /\ f.pc = "done" =>
            f.ret = [st |-> "ok", val |-> getAllDatasheets_alone, err |-> <<>>]
  /\ (f.op.name = "listRecords" /\ f.pc = "done") => f.ret = listRecords_alone(f.op)

\* C29: two calls on one instance, interleaved at their awaits against an
\* upstream that does not change, each collect and return what the call
\* returns when it runs alone; nothing one call collects shows in the other.
C29_CallsShareNothing == AsAlone(Locals) /\ AsAlone(suspended)

\* Two walks of the same space are under way at once, each with entries of
\* its own collected and a node request of its own in flight or answered.
C29_Witness ==
  /\ op.name = "getAllDatasheets" /\ suspended.op.name = "getAllDatasheets"
  /\ pc = "processNode" /\ suspended.pc = "processNode"
  /\ Len(allDatasheets) = 1 /\ Len(suspended.allDatasheets) = 1
  /\ pending # NoReq /\ suspended.reply.body # "none"

\* A walk and a listRecords have both settled, each with a result of its own.
C29_BothReturned ==
  /\ op.name = "getAllDatasheets" /\ suspended.op.name = "listRecords"
  /\ pc = "done" /\ suspended.pc = "done"
  /\ Len(ret.val) = 2 /\ Len(suspended.ret.val) > 0


\* ====================================================================
\* Mutating requests of one call (specification SpecOnce)
\* ====================================================================
MutatingOps == {"createRecord", "updateRecords", "deleteRecords", "createTable",
                "updateTable", "createField", "updateField"}

\* The requests of the call that change the upstream, in order.
MutatingRequests == SelectSeq(log, LAMBDA q : q.m \in {"POST", "PATCH", "DELETE"})

\* The methods without a second dialect send one mutating request at most.
SingleDialectMutatesOnce ==
  op.name \in MutatingOps \ {"createField", "updateField"} => Len(MutatingRequests) <= 1

\* C30: one call to a mutating method sends at most one POST, PATCH or
\* DELETE, also when the first one is answered 2xx with a body of the wrong
\* shape.
C30_OneMutatingRequest ==
  op.name \in MutatingOps => Len(MutatingRequests) <= 1

\* After a first POST that the upstream accepted, the POST goes out again.
C30_PostedAgainAfter2xx ==
  /\ op.name = "createField" /\ Len(MutatingRequests) = 2
  /\ first.ok /\ ~first.html /\ first.body = "badshape"

====
